---- MODULE Spec2Model ----
(***************************************************************************)
(* Model of the document converters of markdown-to-pdf-api:                *)
(*   - JsonToExcel.validate_json_data          (src/api/json_to_excel.py)  *)
(*   - DocxToPdf reader and PDF story builder  (src/api/docx_to_pdf.py)    *)
(*   - the Markdown line scanners of the PDF and DOCX front ends           *)
(*     (src/api/markdown_to_pdf_reportlab.py, src/api/markdown_to_docx.py) *)
(*   - MarkdownToDocx._split_formatted_text                                *)
(*   - the POST handlers and DocxToPdf.convert_docx_content_to_pdf         *)
(*     (src/api/index.py, src/app.py, src/api/docx_to_pdf.py)              *)
(*   - JsonToExcel.json_to_excel_file          (src/api/json_to_excel.py)  *)
(*                                                                         *)
(* Text is a sequence of tokens.  A token is either a whole HTML tag       *)
(* ("<p>", "</strong>", ...), a whitespace character (" "), or a piece of  *)
(* text that contains neither '<' nor '>' nor whitespace.  Every regular   *)
(* expression of the source matches whole tags only, so its effect on a    *)
(* string is its effect on the string's token sequence.                    *)
(***************************************************************************)
EXTENDS Integers, Sequences, FiniteSets, TLC

VARIABLES
    component,      \* which converter this behaviour exercises
    json_data,      \* argument of validate_json_data
    json_result,    \* its return value, or NoResult before the call
    body,           \* DocxToPdf: child elements of the document body, in stored order
    rd_pc,          \* DocxToPdf: position in convert_docx_content_to_pdf
    rd_i,           \* DocxToPdf: number of loop iterations done in the current loop
    story_content,  \* DocxToPdf.extract_ordered_content: story_content
    story,          \* DocxToPdf.create_pdf: story
    rd_result,      \* DocxToPdf.convert_docx_content_to_pdf: return value
    rd_entry,       \* DocxToPdf: the method that was called
    rd_text,        \* DocxToPdf._process_text_run: return value
    inline_text,    \* argument of _split_formatted_text and of _clean_html_tags
    inline_done,    \* which of the two functions have returned
    split_parts,    \* MarkdownToDocx._split_formatted_text: return value
    cleaned,        \* MarkdownToPDFReportLab._clean_html_tags: return value
    md_lines,       \* lines = html.split('\n') of the intermediate HTML
    md_pc,          \* position in the PDF front end, then in the DOCX front end
    pdf_i,          \* _parse_markdown_to_elements: i
    elements,       \* _parse_markdown_to_elements: elements
    current_paragraph, \* _parse_markdown_to_elements: current_paragraph
    pdf_acc,        \* _parse_markdown_to_elements: code_lines, quote_lines or list_items
    pdf_exc,        \* exception caught by markdown_text_to_pdf, or "none"
    pdf_result,     \* markdown_text_to_pdf: return value
    docx_i,         \* _parse_markdown_to_document: i
    doc_paragraphs, \* the paragraphs of self.doc
    docx_acc,       \* _parse_markdown_to_document: code_lines or quote_lines
    docx_exc,       \* exception caught by markdown_text_to_docx, or "none"
    docx_result,    \* markdown_text_to_docx: return value
    rq,             \* request handlers: the request (or the arguments of a direct call)
    h_pc,           \* request handlers: position in the handler and in the converter
    tmp_files,      \* temp files that exist on disk
    h_locals,       \* which of temp_path (handler) and temp_input (converter) are bound
    h_events,       \* what has happened since the call started
    h_status,       \* HTTP status code of the response, 0 before it
    core_result,    \* return value of the converter the handler calls
    xl_entry,       \* which method of JsonToExcel was called
    xl_data,        \* json_to_excel_file: json_data
    xl_fmt,         \* json_to_excel_file: apply_formatting
    xl_pc,          \* json_to_excel_file: position
    xl_rows,        \* the worksheet's rows, header first
    xl_widths,      \* worksheet.column_dimensions[...].width, per column
    xl_events,      \* what has happened since json_to_excel_file was called
    xl_result,      \* json_to_excel_file: return value
    get_url,        \* do_GET: the target of the request line
    request_version,\* do_GET: self.request_version
    get_pc,         \* do_GET: position
    get_path,       \* do_GET: path
    headers_buffer, \* do_GET: the status and header lines not yet written
    wfile           \* do_GET: what has been written to the client

jsonVars == <<json_data, json_result>>
docxVars == <<body, rd_pc, rd_i, story_content, story, rd_result, rd_entry, rd_text>>
inlineVars == <<inline_text, inline_done, split_parts, cleaned>>
pdfVars == <<pdf_i, elements, current_paragraph, pdf_acc, pdf_exc, pdf_result>>
mdDocxVars == <<docx_i, doc_paragraphs, docx_acc, docx_exc, docx_result>>
mdVars == <<md_lines, md_pc, pdfVars, mdDocxVars>>
handlerVars == <<rq, h_pc, tmp_files, h_locals, h_events, h_status, core_result>>
excelVars == <<xl_entry, xl_data, xl_fmt, xl_pc, xl_rows, xl_widths, xl_events, xl_result>>
getVars == <<get_url, request_version, get_pc, get_path, headers_buffer, wfile>>
serviceVars == <<handlerVars, excelVars, getVars>>
converterVars == <<jsonVars, docxVars, inlineVars, mdVars>>
vars == <<component, jsonVars, docxVars, inlineVars, mdVars, serviceVars>>

NoResult == [done |-> FALSE]

NonList == [islist |-> FALSE, items |-> <<>>]

\* The state of a converter that a behaviour does not exercise.
MdIdle ==
    /\ md_lines = <<>>
    /\ md_pc = "idle"
    /\ pdf_i = 0 /\ elements = <<>> /\ current_paragraph = <<>> /\ pdf_acc = <<>>
    /\ pdf_exc = "none" /\ pdf_result = "none"
    /\ docx_i = 0 /\ doc_paragraphs = <<>> /\ docx_acc = <<>>
    /\ docx_exc = "none" /\ docx_result = "none"

InlineIdle ==
    inline_text = <<>> /\ inline_done = {} /\ split_parts = <<>> /\ cleaned = <<>>

JsonIdle == json_data = NonList /\ json_result = NoResult

DocxIdle ==
    /\ body = <<>>
    /\ rd_pc = "idle"
    /\ rd_i = 0
    /\ story_content = <<>>
    /\ story = <<>>
    /\ rd_result = "none"
    /\ rd_entry = "none"
    /\ rd_text = <<>>

NoRequest ==
    [entry |-> "none", shape |-> "none", content |-> <<>>, wellformed |-> FALSE,
     json |-> NonList, scalar |-> FALSE]

HandlerIdle ==
    /\ rq = NoRequest
    /\ h_pc = "idle"
    /\ tmp_files = {}
    /\ h_locals = {}
    /\ h_events = {}
    /\ h_status = 0
    /\ core_result = "none"

ExcelIdle ==
    /\ xl_entry = "none"
    /\ xl_data = NonList
    /\ xl_fmt = FALSE
    /\ xl_pc = "idle"
    /\ xl_rows = <<>>
    /\ xl_widths = <<>>
    /\ xl_events = {}
    /\ xl_result = "none"

GetIdle ==
    /\ get_url = <<>>
    /\ request_version = "none"
    /\ get_pc = "idle"
    /\ get_path = <<>>
    /\ headers_buffer = <<>>
    /\ wfile = <<>>

ServiceIdle == HandlerIdle /\ ExcelIdle /\ GetIdle


(***************************************************************************)
(* Generic sequence helpers.                                               *)
(***************************************************************************)
RECURSIVE Flatten(_)
Flatten(ss) == IF ss = <<>> THEN <<>> ELSE Head(ss) \o Flatten(Tail(ss))

\* The elements of s that satisfy Test, in order.
Filter(s, Test(_)) == SelectSeq(s, Test)

IsWhitespace(c) == c \in {" ", "\t", "\n"}

\* str.strip(): without leading and trailing whitespace.
RECURSIVE LStrip(_)
LStrip(s) == IF s # <<>> /\ IsWhitespace(Head(s)) THEN LStrip(Tail(s)) ELSE s

RECURSIVE RStrip(_)
RStrip(s) ==
    IF s # <<>> /\ IsWhitespace(s[Len(s)]) THEN RStrip(SubSeq(s, 1, Len(s) - 1)) ELSE s

Strip(s) == RStrip(LStrip(s))

RECURSIVE SeqsUpTo(_, _)
SeqsUpTo(S, n) ==
    IF n = 0 THEN {<<>>}
    ELSE LET shorter == SeqsUpTo(S, n - 1)
         IN  shorter \cup {Append(s, x) : s \in {t \in shorter : Len(t) = n - 1}, x \in S}

(***************************************************************************)
(* DocxToPdf: the reader (extract_ordered_content) and the story builder   *)
(* (create_pdf).  Text is a sequence of characters.                         *)
(***************************************************************************)
MaxBody == 3

NUL == "\\x00"

\* The bullet character U+2022.
Bullet == "\\u2022"

\* html.escape(s) with quote=True, character by character.
escape_char(c) ==
    CASE c = "&" -> "&amp;"
      [] c = "<" -> "&lt;"
      [] c = ">" -> "&gt;"
      [] c = "\"" -> "&quot;"
      [] c = "'" -> "&#x27;"
      [] OTHER -> c

\* Variant of html_escape that leaves the text as it is.
html_escape_none(s) == s

html_escape(s) == [k \in 1..Len(s) |-> escape_char(s[k])]

Run(text, bold, italic, underline) ==
    [text |-> text, bold |-> bold, italic |-> italic, underline |-> underline]

\* A body child: a w:p (CT_P), a w:tbl (CT_Tbl) or anything else (w:sectPr).
\* link is paragraph text held outside the runs (a hyperlink's text).
DocxPara(style, runs, link) ==
    [tag |-> "p", style |-> style, runs |-> runs, link |-> link, rows |-> <<>>]
DocxTbl(rows) ==
    [tag |-> "tbl", style |-> "", runs |-> <<>>, link |-> <<>>, rows |-> rows]
SectPr == [tag |-> "sectPr", style |-> "", runs |-> <<>>, link |-> <<>>, rows |-> <<>>]

RECURSIVE RunsText(_)
RunsText(runs) == IF runs = <<>> THEN <<>> ELSE Head(runs).text \o RunsText(Tail(runs))

\* Paragraph.text
ParagraphText(p) == RunsText(p.runs) \o p.link

\* style_name = block.style.name.lower(); 'title' in style_name, ...
StyleContains(style, sub) ==
    CASE sub = "title" -> style \in {"Title", "Subtitle"}
      [] sub = "heading" -> style \in {"Heading 1", "Heading 2"}
      [] sub = "list" -> style \in {"List Bullet", "List Number", "List Paragraph"}
      [] sub = "bullet" -> style \in {"List Bullet"}
      [] OTHER -> FALSE

\* One run of _process_text_run: NUL removed, escaped, wrapped in <b>, <i>, <u>.
process_run(run) ==
    LET text == Filter(run.text, LAMBDA c : c # NUL)
        safe == html_escape(text)
        b == IF run.bold THEN <<"<b>">> \o safe \o <<"</b>">> ELSE safe
        i == IF run.italic THEN <<"<i>">> \o b \o <<"</i>">> ELSE b
        u == IF run.underline THEN <<"<u>">> \o i \o <<"</u>">> ELSE i
    IN  IF text = <<>> THEN <<>> ELSE u

RECURSIVE process_runs(_)
process_runs(runs) ==
    IF runs = <<>> THEN <<>> ELSE process_run(Head(runs)) \o process_runs(Tail(runs))

_process_text_run(p) ==
    IF p.runs = <<>> THEN html_escape(ParagraphText(p)) ELSE process_runs(p.runs)

\* `from docx import Document` binds the factory function docx.api.Document,
\* which is not a class: isinstance(parent, Document) raises TypeError
\* whatever parent is.
DocumentIsClass == FALSE

\* doc = Document(docx_path), and a table, as parents of block items.
DocxDocument(b) == [kind |-> "Document", children |-> b]

IterResult(exc, items) == [exc |-> exc, items |-> items]

\* iter_block_items(parent), run to its end: the exception it raises and the
\* paragraphs and tables it yields.
iter_block_items(parent) ==
    IF ~DocumentIsClass THEN IterResult("TypeError", <<>>)
    ELSE IF parent.kind \in {"Document", "Table"}
    THEN IterResult("none", Filter(parent.children, LAMBDA c : c.tag \in {"p", "tbl"}))
    ELSE IterResult("ValueError", <<>>)

ContentItem(kind, text, data) == [kind |-> kind, text |-> text, data |-> data]

paragraph_kind(style) ==
    IF StyleContains(style, "title") THEN "title"
    ELSE IF StyleContains(style, "heading") THEN "heading"
    ELSE IF StyleContains(style, "list") \/ StyleContains(style, "bullet") THEN "list_bullet"
    ELSE "normal"

\* A table cell: a Paragraph of the escaped stripped text, or "" when empty.
cell_data(cell) ==
    LET cell_text == Strip(cell)
    IN  IF cell_text # <<>>
        THEN [flow |-> "Paragraph", text |-> html_escape(cell_text), style |-> "Normal"]
        ELSE [flow |-> "str", text |-> <<>>, style |-> ""]

table_data(t) == [r \in 1..Len(t.rows) |-> [c \in 1..Len(t.rows[r]) |-> cell_data(t.rows[r][c])]]

\* What one iteration of the loop of extract_ordered_content appends.
extract_block(block) ==
    IF block.tag = "p"
    THEN IF Strip(ParagraphText(block)) = <<>> THEN <<>>
         ELSE <<ContentItem(paragraph_kind(block.style), _process_text_run(block), <<>>)>>
    ELSE IF table_data(block) # <<>> THEN <<ContentItem("table", <<>>, table_data(block))>>
         ELSE <<>>

RECURSIVE extract_blocks(_)
extract_blocks(blocks) ==
    IF blocks = <<>> THEN <<>>
    ELSE extract_block(Head(blocks)) \o extract_blocks(Tail(blocks))

\* extract_ordered_content for a file that Document() opens: the exception
\* it re-raises, or the story_content it returns.
extract_ordered_content(b) ==
    LET it == iter_block_items(DocxDocument(b))
    IN  IF it.exc # "none" THEN [exc |-> it.exc, content |-> <<>>]
        ELSE [exc |-> "none", content |-> extract_blocks(it.items)]

Flowable(flow, text, style) == [flow |-> flow, text |-> text, style |-> style]
Spacer(height) == [flow |-> "Spacer", height |-> height]
TableFlowable(data) == [flow |-> "Table", data |-> data]

\* What one iteration of the loop of create_pdf appends.
create_flowables(item) ==
    CASE item.kind = "title" ->
            <<Flowable("Paragraph", item.text, "CustomTitle"), Spacer(12)>>
      [] item.kind = "heading" ->
            <<Flowable("Paragraph", item.text, "CustomHeading"), Spacer(6)>>
      [] item.kind = "normal" ->
            <<Flowable("Paragraph", item.text, "CustomNormal"), Spacer(6)>>
      [] item.kind = "list_bullet" ->
            <<Flowable("Paragraph", <<Bullet, " ">> \o item.text, "CustomNormal"), Spacer(4)>>
      [] item.kind = "table" ->
            IF Len(item.data) > 0 THEN <<TableFlowable(item.data), Spacer(12)>> ELSE <<>>
      [] OTHER -> <<>>

PlainRun(text) == Run(text, FALSE, FALSE, FALSE)

\* The body children of the documents.  All text of a document (of a run,
\* of a paragraph outside its runs, of a table cell) is text of the parsed
\* XML, which holds no NUL character; it can hold '&', '<' and '>'.
Children ==
    { DocxPara("Normal", <<PlainRun(<<" ">>)>>, <<>>),
      DocxPara("Normal", <<PlainRun(<<"A">>)>>, <<>>),
      DocxPara("Heading 1", <<Run(<<"B", "&">>, TRUE, FALSE, FALSE)>>, <<>>),
      DocxPara("List Bullet", <<PlainRun(<<"L">>), Run(<<"<">>, FALSE, TRUE, TRUE)>>, <<>>),
      DocxPara("Normal", <<Run(<<"N", ">">>, TRUE, FALSE, FALSE)>>, <<>>),
      DocxPara("Normal", <<>>, <<"K", "&">>),
      DocxTbl(<<<<<<"T">>, <<" ">>>>>>),
      DocxTbl(<<<<<<"<", "K">>>>>>),
      DocxTbl(<<>>),
      SectPr }

ConvertEntry == "convert_docx_content_to_pdf"
CreatePdfEntry == "create_pdf"
TextRunEntry == "_process_text_run"

\* The items of the content lists create_pdf is called with: those the loop
\* of extract_ordered_content builds from the children, a table without
\* rows and an item of a kind create_pdf does not know.
ContentItems ==
    { extract_block(c)[1] : c \in {d \in Children : extract_block(d) # <<>>} }
    \cup {ContentItem("table", <<>>, <<>>), ContentItem("quote", <<"Q">>, <<>>)}

\* A call of convert_docx_content_to_pdf for a document with the given body,
\* of create_pdf with a content list, or of _process_text_run with a paragraph.
InitDocx ==
    /\ component = "docx_to_pdf"
    /\ rd_entry \in {ConvertEntry, CreatePdfEntry, TextRunEntry}
    /\ body \in IF rd_entry = ConvertEntry THEN SeqsUpTo(Children, MaxBody)
                ELSE IF rd_entry = TextRunEntry
                THEN {<<c>> : c \in {d \in Children : d.tag = "p"}}
                ELSE {<<>>}
    /\ story_content \in IF rd_entry = CreatePdfEntry THEN SeqsUpTo(ContentItems, MaxBody)
                         ELSE {<<>>}
    /\ rd_pc = IF rd_entry = ConvertEntry THEN "extract"
               ELSE IF rd_entry = CreatePdfEntry THEN "create"
               ELSE "text_run"
    /\ rd_i = 0
    /\ story = <<>>
    /\ rd_result = "none"
    /\ rd_text = <<>>
    /\ JsonIdle
    /\ InlineIdle
    /\ MdIdle
    /\ ServiceIdle

\* convert_docx_content_to_pdf: content = self.extract_ordered_content(temp_input).
\* What extract_ordered_content raises is caught by convert_docx_content_to_pdf,
\* which returns False; what it returns goes to create_pdf.
Extract ==
    /\ rd_pc = "extract"
    /\ LET r == extract_ordered_content(body)
       IN  /\ story_content' = r.content
           /\ rd_result' = IF r.exc # "none" THEN "False" ELSE rd_result
           /\ rd_pc' = IF r.exc # "none" THEN "done" ELSE "create"
    /\ UNCHANGED <<serviceVars, component, body, rd_i, story, rd_entry, rd_text,
                   jsonVars, inlineVars, mdVars>>

\* A call of self._process_text_run(paragraph).
ProcessTextRun ==
    /\ rd_pc = "text_run"
    /\ rd_text' = _process_text_run(body[1])
    /\ rd_pc' = "done"
    /\ UNCHANGED <<serviceVars, component, body, rd_i, story_content, story, rd_result,
                   rd_entry, jsonVars, inlineVars, mdVars>>

\* create_pdf: one iteration of `for kind, data in content`.
CreateFlowables ==
    /\ rd_pc = "create"
    /\ rd_i < Len(story_content)
    /\ story' = story \o create_flowables(story_content[rd_i + 1])
    /\ rd_i' = rd_i + 1
    /\ UNCHANGED <<serviceVars, component, body, rd_pc, story_content, rd_result,
                   rd_entry, rd_text, jsonVars, inlineVars, mdVars>>

\* create_pdf: doc.build(story) returns (True) or raises (False).
BuildStory ==
    /\ rd_pc = "create"
    /\ rd_i = Len(story_content)
    /\ \E built \in BOOLEAN : rd_result' = IF built THEN "True" ELSE "False"
    /\ rd_pc' = "done"
    /\ UNCHANGED <<serviceVars, component, body, rd_i, story_content, story,
                   rd_entry, rd_text, jsonVars, inlineVars, mdVars>>

NextDocx == Extract \/ ProcessTextRun \/ CreateFlowables \/ BuildStory

SpecDocx == InitDocx /\ [][NextDocx]_vars

(***************************************************************************)
(* Claims about the DOCX reader.                                           *)
(***************************************************************************)
\* A body child the reader keeps: a paragraph with non-blank text, or a table
\* with at least one row.
Retained(c) ==
    \/ c.tag = "p" /\ Strip(ParagraphText(c)) # <<>>
    \/ c.tag = "tbl" /\ c.rows # <<>>

RetainedIdx(b) == {j \in 1..Len(b) : Retained(b[j])}

\* The position among the retained children of the retained child at index j.
RankIn(b, j) == Cardinality({k \in RetainedIdx(b) : k <= j})

StoryBlocks == Filter(story, LAMBDA f : f.flow # "Spacer")

\* C1: the sequence that extract_ordered_content hands to create_pdf lists
\* the retained blocks in the order of the body's child elements, a table
\* stored between two non-empty paragraphs standing between their two
\* blocks; and the story that create_pdf builds lists the blocks of its
\* content in order.
C1_OrderPreserved ==
    /\ (rd_entry = ConvertEntry /\ rd_pc \in {"create", "done"}) =>
          /\ Len(story_content) = Cardinality(RetainedIdx(body))
          /\ \A j \in RetainedIdx(body) :
                story_content[RankIn(body, j)] = extract_block(body[j])[1]
          /\ \A i, j, k \in RetainedIdx(body) :
                (i < j /\ j < k /\ body[i].tag = "p" /\ body[j].tag = "tbl"
                     /\ body[k].tag = "p")
                => /\ RankIn(body, i) < RankIn(body, j)
                   /\ RankIn(body, j) < RankIn(body, k)
                   /\ story_content[RankIn(body, j)].kind = "table"
    /\ (rd_entry \in {ConvertEntry, CreatePdfEntry} /\ rd_pc = "done") =>
          LET kept == Filter(story_content, LAMBDA item : create_flowables(item) # <<>>)
          IN  /\ Len(StoryBlocks) = Len(kept)
              /\ \A n \in 1..Len(kept) : StoryBlocks[n] = create_flowables(kept[n])[1]

\* The document has no paragraph with text and no table.
EmptyDocument(b) ==
    \A j \in 1..Len(b) :
        /\ b[j].tag # "tbl"
        /\ b[j].tag = "p" => Strip(ParagraphText(b[j])) = <<>>

\* C13: for a document with no non-empty paragraph and no table,
\* extract_ordered_content returns exactly one block, a placeholder
\* paragraph, and never the empty sequence.
C13_EmptyPlaceholder ==
    (rd_entry = ConvertEntry /\ rd_pc \in {"create", "done"} /\ EmptyDocument(body)) =>
        /\ Len(story_content) = 1
        /\ story_content[1].kind \in {"normal", "title", "heading"}

SafeText(text) == \A k \in 1..Len(text) : text[k] \notin {NUL, "&", "<", ">"}

GeneratedTags == {"<b>", "</b>", "<i>", "</i>", "<u>", "</u>"}

\* The text with the tags of one run taken off, outermost first.
Unwrapped(text) ==
    LET u == IF text # <<>> /\ Head(text) = "<u>" /\ text[Len(text)] = "</u>"
             THEN SubSeq(text, 2, Len(text) - 1) ELSE text
        i == IF u # <<>> /\ Head(u) = "<i>" /\ u[Len(u)] = "</i>"
             THEN SubSeq(u, 2, Len(u) - 1) ELSE u
    IN  IF i # <<>> /\ Head(i) = "<b>" /\ i[Len(i)] = "</b>"
        THEN SubSeq(i, 2, Len(i) - 1) ELSE i

\* C25: for a document read from XML, whose text holds no NUL character,
\* every text the DOCX-to-PDF path prepares for a PDF paragraph is free
\* of NUL characters and of unescaped '&', '<' and '>', the tags <b>, <i>
\* and <u> aside: the text _process_text_run returns for a paragraph with
\* runs or without, and the text of the paragraphs and table cells that the
\* loop body of extract_ordered_content puts into a content list; and what
\* process_run returns for one run is that run's
\* escaped text inside its own opened and closed tags.
C25_TextEscaped ==
    /\ (rd_entry = TextRunEntry /\ rd_pc = "done") =>
          /\ SafeText(Filter(rd_text, LAMBDA c : c \notin GeneratedTags))
          /\ body[1].runs = <<>> => SafeText(rd_text)
          /\ \A k \in 1..Len(body[1].runs) :
                SafeText(Unwrapped(process_run(body[1].runs[k])))
    /\ \A n \in 1..Len(story_content) :
          LET item == story_content[n]
          IN  IF item.kind = "table"
              THEN \A r \in 1..Len(item.data) : \A c \in 1..Len(item.data[r]) :
                       SafeText(item.data[r][c].text)
              ELSE SafeText(Filter(item.text, LAMBDA c : c \notin GeneratedTags))

\* _process_text_run returned the text of a plain run and of an italic,
\* underlined run that holds '<'.
C25_Witness ==
    /\ rd_entry = TextRunEntry
    /\ rd_pc = "done"
    /\ body[1].runs = <<PlainRun(<<"L">>), Run(<<"<">>, FALSE, TRUE, TRUE)>>
    /\ rd_text = <<"L", "<u>", "<i>", "&lt;", "</i>", "</u>">>

(***************************************************************************)
(* HTML text as token sequences, and the regular expressions of the two    *)
(* Markdown front ends.                                                    *)
(***************************************************************************)
FontOpen == "<font name=\"Courier\" size=\"9\">"

AllTags ==
    { "<h1>", "</h1>", "<h2>", "</h2>", "<h3>", "</h3>", "<p>", "</p>",
      "<pre>", "</pre>", "<code>", "</code>", "<blockquote>", "</blockquote>",
      "<ul>", "</ul>", "<ol>", "</ol>", "<li>", "</li>",
      "<strong>", "</strong>", "<em>", "</em>", "<b>", "</b>", "<i>", "</i>",
      FontOpen, "</font>" }

\* The tags each prefix pattern matches: r'<p.*?>' matches every tag whose
\* name starts with p, and so on.
P_Open == {"<p>", "<pre>"}
Li_Open == {"<li>"}
Ul_Open == {"<ul>"}
Ol_Open == {"<ol>"}
H_Open == {"<h1>", "<h2>", "<h3>"}
H_Close == {"</h1>", "</h2>", "</h3>"}
Bq_Open == {"<blockquote>"}

\* re.sub(pattern, '', text) for a pattern that matches the tags of T.
RemoveTags(text, T) == Filter(text, LAMBDA t : t \notin T)

\* re.sub(r'<[^>]+>', '', text)
RemoveAllTags(text) == RemoveTags(text, AllTags)

StartsWith(s, prefix) ==
    Len(s) >= Len(prefix) /\ SubSeq(s, 1, Len(prefix)) = prefix

EndsWith(s, suffix) ==
    Len(s) >= Len(suffix) /\ SubSeq(s, Len(s) - Len(suffix) + 1, Len(s)) = suffix

\* str.replace(old, '')
RECURSIVE Remove(_, _)
Remove(s, old) ==
    IF s = <<>> THEN <<>>
    ELSE IF StartsWith(s, old) THEN Remove(SubSeq(s, Len(old) + 1, Len(s)), old)
    ELSE <<Head(s)>> \o Remove(Tail(s), old)

\* sep.join(ss)
RECURSIVE Join(_, _)
Join(ss, sep) ==
    IF ss = <<>> THEN <<>>
    ELSE IF Len(ss) = 1 THEN ss[1]
    ELSE ss[1] \o sep \o Join(Tail(ss), sep)

\* The matches of re.finditer(open + '(.*?)' + close, text) that start at or
\* after position from (0-based): the leftmost open tag and the nearest close
\* tag after it, then on from the end of that match.
RECURSIVE finditer(_, _, _, _, _)
finditer(text, open, close, format_type, from) ==
    LET opens == {k \in (from + 1)..Len(text) : text[k] = open}
    IN  IF opens = {} THEN <<>>
        ELSE LET s == CHOOSE k \in opens : \A m \in opens : k <= m
                 closes == {k \in (s + 1)..Len(text) : text[k] = close}
             IN  IF closes = {} THEN <<>>
                 ELSE LET e == CHOOSE k \in closes : \A m \in closes : k <= m
                      IN  <<[start |-> s - 1, end |-> e,
                             content |-> SubSeq(text, s + 1, e - 1),
                             format_type |-> format_type]>>
                          \o finditer(text, open, close, format_type, e)

\* re.sub(open + '(.*?)' + close, new_open + r'\1' + new_close, text)
RECURSIVE sub_pair(_, _, _, _, _)
sub_pair(text, open, close, new_open, new_close) ==
    LET ms == finditer(text, open, close, "", 0)
    IN  IF ms = <<>> THEN text
        ELSE SubSeq(text, 1, ms[1].start)
             \o <<new_open>> \o ms[1].content \o <<new_close>>
             \o sub_pair(SubSeq(text, ms[1].end + 1, Len(text)),
                         open, close, new_open, new_close)

\* matches.sort(): ascending start (no two matches start at the same place).
RECURSIVE sort_matches(_)
sort_matches(ms) ==
    IF ms = <<>> THEN <<>>
    ELSE LET k == CHOOSE k \in 1..Len(ms) : \A m \in 1..Len(ms) : ms[k].start <= ms[m].start
         IN  <<ms[k]>> \o sort_matches(SubSeq(ms, 1, k - 1) \o SubSeq(ms, k + 1, Len(ms)))

(***************************************************************************)
(* MarkdownToDocx: _clean_html_tags, _clean_basic_tags,                    *)
(* _split_formatted_text.                                                  *)
(***************************************************************************)
docx_clean_html_tags(text) == Strip(RemoveAllTags(text))

_clean_basic_tags(text) ==
    LET t1 == RemoveTags(text, P_Open)
        t2 == RemoveTags(t1, {"</p>"})
        t3 == RemoveTags(t2, Li_Open)
        t4 == RemoveTags(t3, {"</li>"})
        t5 == RemoveTags(t4, H_Open)
        t6 == RemoveTags(t5, H_Close)
        t7 == RemoveTags(t6, Bq_Open)
        t8 == RemoveTags(t7, {"</blockquote>"})
    IN  Strip(t8)

Part(text, is_bold, is_italic, is_code) ==
    [text |-> text, bold |-> is_bold, italic |-> is_italic, code |-> is_code]

\* The loop over the sorted matches: st is (parts, current_pos).
RECURSIVE split_loop(_, _, _)
split_loop(text, ms, st) ==
    IF ms = <<>> THEN st
    ELSE LET m == Head(ms)
             plain_text == RemoveAllTags(SubSeq(text, st.current_pos + 1, m.start))
             before == IF m.start > st.current_pos /\ plain_text # <<>>
                       THEN <<Part(plain_text, FALSE, FALSE, FALSE)>> ELSE <<>>
             formatted == Part(m.content, m.format_type = "bold",
                               m.format_type = "italic", m.format_type = "code")
         IN  split_loop(text, Tail(ms),
                        [parts |-> st.parts \o before \o <<formatted>>,
                         current_pos |-> m.end])

_split_formatted_text(original_text) ==
    LET text == _clean_basic_tags(original_text)
        matches == finditer(text, "<strong>", "</strong>", "bold", 0)
                   \o finditer(text, "<b>", "</b>", "bold", 0)
                   \o finditer(text, "<em>", "</em>", "italic", 0)
                   \o finditer(text, "<i>", "</i>", "italic", 0)
                   \o finditer(text, "<code>", "</code>", "code", 0)
        st == split_loop(text, sort_matches(matches), [parts |-> <<>>, current_pos |-> 0])
        remaining_text == RemoveAllTags(SubSeq(text, st.current_pos + 1, Len(text)))
    IN  IF st.current_pos < Len(text) /\ remaining_text # <<>>
        THEN st.parts \o <<Part(remaining_text, FALSE, FALSE, FALSE)>>
        ELSE st.parts

(***************************************************************************)
(* MarkdownToPDFReportLab._clean_html_tags.                                *)
(***************************************************************************)
\* The substitutions of _clean_html_tags before its last one: the block tags
\* removed, then <strong>, <em> and <code> spans rewritten as <b>, <i>, <font>.
pdf_convert_formatting(text) ==
    LET t1 == RemoveTags(text, P_Open)
        t2 == RemoveTags(t1, {"</p>"})
        t3 == RemoveTags(t2, Li_Open)
        t4 == RemoveTags(t3, {"</li>"})
        t5 == RemoveTags(t4, Ul_Open)
        t6 == RemoveTags(t5, {"</ul>"})
        t7 == RemoveTags(t6, Ol_Open)
        t8 == RemoveTags(t7, {"</ol>"})
        t9 == RemoveTags(t8, H_Open)
        t10 == RemoveTags(t9, H_Close)
        t11 == RemoveTags(t10, Bq_Open)
        t12 == RemoveTags(t11, {"</blockquote>"})
        t13 == sub_pair(t12, "<strong>", "</strong>", "<b>", "</b>")
        t14 == sub_pair(t13, "<em>", "</em>", "<i>", "</i>")
    IN  sub_pair(t14, "<code>", "</code>", FontOpen, "</font>")

pdf_clean_html_tags(text) == Strip(RemoveAllTags(pdf_convert_formatting(text)))

(***************************************************************************)
(* The two inline-formatting functions applied to one text.                *)
(***************************************************************************)
MaxText == 5

InlineTokens == {"a", " ", "<strong>", "</strong>", "<em>", "</em>", "<code>", "</code>"}

InitInline ==
    /\ component = "inline"
    /\ inline_text \in SeqsUpTo(InlineTokens, MaxText)
    /\ inline_done = {}
    /\ split_parts = <<>>
    /\ cleaned = <<>>
    /\ JsonIdle
    /\ DocxIdle
    /\ MdIdle
    /\ ServiceIdle

SplitFormattedText ==
    /\ component = "inline"
    /\ "split" \notin inline_done
    /\ split_parts' = _split_formatted_text(inline_text)
    /\ inline_done' = inline_done \cup {"split"}
    /\ UNCHANGED <<serviceVars, component, inline_text, cleaned, jsonVars, docxVars, mdVars>>

CleanHtmlTags ==
    /\ component = "inline"
    /\ "clean" \notin inline_done
    /\ cleaned' = pdf_clean_html_tags(inline_text)
    /\ inline_done' = inline_done \cup {"clean"}
    /\ UNCHANGED <<serviceVars, component, inline_text, split_parts, jsonVars, docxVars, mdVars>>

NextInline == SplitFormattedText \/ CleanHtmlTags

SpecInline == InitInline /\ [][NextInline]_vars

(***************************************************************************)
(* Claims about the inline-formatting functions.                           *)
(***************************************************************************)
RECURSIVE PartsText(_)
PartsText(parts) == IF parts = <<>> THEN <<>> ELSE Head(parts).text \o PartsText(Tail(parts))

\* C6: the parts returned by _split_formatted_text, concatenated in order,
\* are the text with all tags removed (up to the whitespace stripped at both
\* ends), and no part contains a tag.
C6_PartsPartitionText ==
    "split" \in inline_done =>
        /\ Strip(PartsText(split_parts)) = Strip(RemoveAllTags(inline_text))
        /\ \A n \in 1..Len(split_parts) :
              \A k \in 1..Len(split_parts[n].text) : split_parts[n].text[k] \notin AllTags

NativeMarkup == {"<b>", "</b>", "<i>", "</i>", FontOpen, "</font>"}

\* C7: the text returned by the PDF front end's _clean_html_tags keeps bold,
\* italic and code spans as <b>, <i> and <font> markup around the span
\* content, and removes only the other tags.
C7_InlineMarkupKept ==
    "clean" \in inline_done =>
        cleaned = Strip(RemoveTags(pdf_convert_formatting(inline_text),
                                   AllTags \ NativeMarkup))

(***************************************************************************)
(* The Markdown front ends.  markdown2 turns the Markdown text into HTML;  *)
(* the model starts from the HTML's lines.  A behaviour converts one text  *)
(* with markdown_text_to_pdf and then with markdown_text_to_docx.          *)
(***************************************************************************)
MaxLines == 3

L_blank == <<>>
L_h1 == <<"<h1>", "Title", "</h1>">>
L_p == <<"<p>", "Hello", " ", "<strong>", "world", "</strong>", "</p>">>
L_code_open == <<"<pre>", "<code>", "x">>
L_code_close == <<"y", "</code>", "</pre>">>
L_quote_open == <<"<blockquote>">>
L_quote_close == <<"</blockquote>">>
L_ul == <<"<ul>">>
L_li == <<"<li>", "item", "</li>">>
L_ul_close == <<"</ul>">>
L_text == <<"loose">>

LineSet ==
    { L_blank, L_h1, L_p, L_code_open, L_code_close, L_quote_open, L_quote_close,
      L_ul, L_li, L_ul_close, L_text }

\* Whole documents: the HTML of "# Title\n\nHello **world**", of whitespace,
\* of "## H\n### h\n", of a one-line code block and quote, of a list item
\* with two paragraphs, of "- a\nb" (a list item that goes on in the next
\* line), and of a nested list, with the inner closing tag on a line of its
\* own and on one line with the </li> that follows it.
Samples ==
    { <<L_h1, L_blank, L_p, L_blank>>,
      <<L_ul, <<"<li>", "a">>, <<"b", "</li>">>, L_ul_close, L_blank>>,
      <<<<" ">>, L_blank>>,
      <<<<"<h2>", "H", "</h2>">>, <<"<h3>", "h", "</h3>">>, L_blank>>,
      <<<<"<pre>", "<code>", "x", "</code>", "</pre>">>,
        <<"<blockquote>", "q", "</blockquote>">>, L_blank>>,
      <<L_ul, <<"<li>", "<p>", "a", "</p>">>, L_blank,
        <<"<p>", "b", "</p>", "</li>">>, L_ul_close, L_blank>>,
      <<<<"<ol>">>, <<"<li>", "a">>, L_ul, L_li, L_ul_close, <<"</li>">>,
        <<"<li>", "c", "</li>">>, <<"</ol>">>, L_blank>>,
      <<L_ul, <<"<li>", "a">>, L_ul, L_li, <<"</ul>", "</li>">>,
        <<"<li>", "c", "</li>">>, L_ul_close, L_blank>> }

\* html.split('\n') never returns an empty list.
MdInputs == (SeqsUpTo(LineSet, MaxLines) \ {<<>>}) \cup Samples

CodeOpen == <<"<pre>", "<code>">>
CodeClose == <<"</code>", "</pre>">>

\* The if/elif chain of _parse_markdown_to_elements on the stripped line.
pdf_line_kind(line) ==
    IF line = <<>> THEN "blank"
    ELSE IF StartsWith(line, <<"<h1>">>) /\ EndsWith(line, <<"</h1>">>) THEN "h1"
    ELSE IF StartsWith(line, <<"<h2>">>) /\ EndsWith(line, <<"</h2>">>) THEN "h2"
    ELSE IF StartsWith(line, <<"<h3>">>) /\ EndsWith(line, <<"</h3>">>) THEN "h3"
    ELSE IF StartsWith(line, CodeOpen) THEN "code"
    ELSE IF StartsWith(line, <<"<blockquote>">>) THEN "quote"
    ELSE IF StartsWith(line, <<"<ul>">>) \/ StartsWith(line, <<"<ol>">>) THEN "list"
    ELSE IF StartsWith(line, <<"<p>">>) /\ EndsWith(line, <<"</p>">>) THEN "p"
    ELSE "other"

\* A variant of pdf_flush that emits the paragraph also when nothing is pending.
pdf_flush_always(cp) == <<Flowable("Paragraph", Join(cp, <<" ">>), "CustomNormal")>>

\* if current_paragraph: elements.append(Paragraph(' '.join(current_paragraph), ...))
pdf_flush(cp) ==
    IF cp # <<>> THEN <<Flowable("Paragraph", Join(cp, <<" ">>), "CustomNormal")>>
    ELSE <<>>

\* What an iteration of the outer loop appends for a line that is a block by
\* itself (after the flush of the pending paragraph).
pdf_block(kind, line) ==
    CASE kind = "h1" ->
            <<Flowable("Paragraph", pdf_clean_html_tags(line), "CustomTitle"), Spacer(12)>>
      [] kind = "h2" ->
            <<Flowable("Paragraph", pdf_clean_html_tags(line), "CustomHeading2"), Spacer(8)>>
      [] kind = "h3" ->
            <<Flowable("Paragraph", pdf_clean_html_tags(line), "CustomHeading3"), Spacer(6)>>
      [] kind = "code" ->
            <<Flowable("Preformatted", Remove(Remove(line, CodeOpen), CodeClose), "CustomCode"),
              Spacer(12)>>
      [] kind = "quote" ->
            <<Flowable("Paragraph",
                       pdf_clean_html_tags(Remove(Remove(line, <<"<blockquote>">>),
                                                  <<"</blockquote>">>)),
                       "CustomQuote"),
              Spacer(12)>>
      [] kind = "p" ->
            <<Flowable("Paragraph", pdf_clean_html_tags(line), "CustomNormal"), Spacer(6)>>
      [] OTHER -> <<>>

\* The line is a block by itself: not the opening of a multi-line construct.
single_line(kind, line) ==
    \/ kind \in {"h1", "h2", "h3", "p"}
    \/ kind = "code" /\ EndsWith(line, CodeClose)
    \/ kind = "quote" /\ EndsWith(line, <<"</blockquote>">>)

\* Variant of has_line without the bound test.
has_line_unguarded(lines, i) == TRUE

\* `if i < len(lines):` after the inner loop of a code block or blockquote.
has_line(lines, i) == i < Len(lines)

\* Variant of in_block whose loop never runs.
in_block_never(lines, i, close) == FALSE

\* The condition of the inner loop of a code block or blockquote.
in_block(lines, i, close) == i < Len(lines) /\ ~EndsWith(Strip(lines[i + 1]), close)

\* The condition of the inner loop of a list.
in_list(lines, i) ==
    i < Len(lines) /\ ~(Strip(lines[i + 1]) = <<"</ul>">> \/ Strip(lines[i + 1]) = <<"</ol>">>)

PdfLine == Strip(md_lines[pdf_i + 1])

InitMd ==
    /\ component = "markdown"
    /\ md_lines \in MdInputs
    /\ md_pc = "pdf"
    /\ pdf_i = 0 /\ elements = <<>> /\ current_paragraph = <<>> /\ pdf_acc = <<>>
    /\ pdf_exc = "none" /\ pdf_result = "none"
    /\ docx_i = 0 /\ doc_paragraphs = <<>> /\ docx_acc = <<>>
    /\ docx_exc = "none" /\ docx_result = "none"
    /\ JsonIdle
    /\ DocxIdle
    /\ InlineIdle
    /\ ServiceIdle

\* Outer loop, blank line: the pending paragraph is flushed.
PdfBlank ==
    /\ md_pc = "pdf" /\ pdf_i < Len(md_lines)
    /\ pdf_line_kind(PdfLine) = "blank"
    /\ elements' = elements \o pdf_flush(current_paragraph)
    /\ current_paragraph' = <<>>
    /\ pdf_i' = pdf_i + 1
    /\ UNCHANGED <<serviceVars, component, md_lines, md_pc, pdf_acc, pdf_exc, pdf_result,
                   mdDocxVars, jsonVars, docxVars, inlineVars>>

\* Outer loop, a heading, a paragraph, or a code block or quote on one line.
PdfSingleLine ==
    /\ md_pc = "pdf" /\ pdf_i < Len(md_lines)
    /\ single_line(pdf_line_kind(PdfLine), PdfLine)
    /\ elements' = elements \o pdf_flush(current_paragraph)
                            \o pdf_block(pdf_line_kind(PdfLine), PdfLine)
    /\ current_paragraph' = <<>>
    /\ pdf_i' = pdf_i + 1
    /\ UNCHANGED <<serviceVars, component, md_lines, md_pc, pdf_acc, pdf_exc, pdf_result,
                   mdDocxVars, jsonVars, docxVars, inlineVars>>

\* Outer loop, opening line of a code block or blockquote that does not close
\* on the same line, or of a list.
PdfOpen ==
    /\ md_pc = "pdf" /\ pdf_i < Len(md_lines)
    /\ LET kind == pdf_line_kind(PdfLine)
       IN  /\ kind \in {"code", "quote", "list"}
           /\ ~single_line(kind, PdfLine)
           /\ pdf_acc' = CASE kind = "code" -> <<Remove(PdfLine, CodeOpen)>>
                           [] kind = "quote" -> <<Remove(PdfLine, <<"<blockquote>">>)>>
                           [] OTHER -> <<>>
           /\ md_pc' = CASE kind = "code" -> "pdf_code"
                          [] kind = "quote" -> "pdf_quote"
                          [] OTHER -> "pdf_list"
    /\ elements' = elements \o pdf_flush(current_paragraph)
    /\ current_paragraph' = <<>>
    /\ pdf_i' = pdf_i + 1
    /\ UNCHANGED <<serviceVars, component, md_lines, pdf_exc, pdf_result,
                   mdDocxVars, jsonVars, docxVars, inlineVars>>

\* Outer loop, any other line: its cleaned text joins the pending paragraph.
PdfOther ==
    /\ md_pc = "pdf" /\ pdf_i < Len(md_lines)
    /\ pdf_line_kind(PdfLine) = "other"
    /\ current_paragraph' = Append(current_paragraph, pdf_clean_html_tags(PdfLine))
    /\ pdf_i' = pdf_i + 1
    /\ UNCHANGED <<serviceVars, component, md_lines, md_pc, elements, pdf_acc, pdf_exc, pdf_result,
                   mdDocxVars, jsonVars, docxVars, inlineVars>>

PdfClose(pc) == IF pc = "pdf_code" THEN CodeClose ELSE <<"</blockquote>">>

\* Inner loop of a code block or blockquote: the raw line is collected.
PdfBlockLine ==
    /\ md_pc \in {"pdf_code", "pdf_quote"}
    /\ in_block(md_lines, pdf_i, PdfClose(md_pc))
    /\ pdf_acc' = Append(pdf_acc, md_lines[pdf_i + 1])
    /\ pdf_i' = pdf_i + 1
    /\ UNCHANGED <<serviceVars, component, md_lines, md_pc, elements, current_paragraph, pdf_exc,
                   pdf_result, mdDocxVars, jsonVars, docxVars, inlineVars>>

\* After the inner loop: the closing line, if there is one, is collected
\* without its closing tags, the block is emitted, and the outer loop goes on.
\* Reading lines[i] at the end of the list raises IndexError.
PdfBlockEnd ==
    /\ md_pc \in {"pdf_code", "pdf_quote"}
    /\ ~in_block(md_lines, pdf_i, PdfClose(md_pc))
    /\ LET raises == has_line(md_lines, pdf_i) /\ pdf_i >= Len(md_lines)
           all == IF has_line(md_lines, pdf_i) /\ ~raises
                  THEN Append(pdf_acc, Remove(md_lines[pdf_i + 1], PdfClose(md_pc)))
                  ELSE pdf_acc
           block == IF md_pc = "pdf_code"
                    THEN <<Flowable("Preformatted", Join(all, <<"\n">>), "CustomCode"),
                           Spacer(12)>>
                    ELSE <<Flowable("Paragraph", pdf_clean_html_tags(Join(all, <<" ">>)),
                                    "CustomQuote"),
                           Spacer(12)>>
       IN  /\ pdf_exc' = IF raises THEN "IndexError" ELSE pdf_exc
           /\ pdf_result' = IF raises THEN "False" ELSE pdf_result
           /\ md_pc' = IF raises THEN "docx" ELSE "pdf"
           /\ elements' = IF raises THEN elements ELSE elements \o block
           /\ pdf_acc' = IF raises THEN pdf_acc ELSE <<>>
           /\ pdf_i' = IF raises THEN pdf_i ELSE pdf_i + 1
    /\ UNCHANGED <<serviceVars, component, md_lines, current_paragraph,
                   mdDocxVars, jsonVars, docxVars, inlineVars>>

\* Inner loop of a list: a line that starts with <li> becomes a list item.
PdfListLine ==
    /\ md_pc = "pdf_list"
    /\ in_list(md_lines, pdf_i)
    /\ pdf_acc' = IF StartsWith(PdfLine, <<"<li>">>)
                  THEN Append(pdf_acc, <<Bullet, " ">> \o pdf_clean_html_tags(PdfLine))
                  ELSE pdf_acc
    /\ pdf_i' = pdf_i + 1
    /\ UNCHANGED <<serviceVars, component, md_lines, md_pc, elements, current_paragraph, pdf_exc,
                   pdf_result, mdDocxVars, jsonVars, docxVars, inlineVars>>

\* After the inner loop of a list: the items are emitted, then one spacer.
PdfListEnd ==
    /\ md_pc = "pdf_list"
    /\ ~in_list(md_lines, pdf_i)
    /\ elements' = elements
                   \o [n \in 1..Len(pdf_acc) |-> Flowable("Paragraph", pdf_acc[n], "CustomNormal")]
                   \o <<Spacer(8)>>
    /\ pdf_acc' = <<>>
    /\ pdf_i' = pdf_i + 1
    /\ md_pc' = "pdf"
    /\ UNCHANGED <<serviceVars, component, md_lines, current_paragraph, pdf_exc, pdf_result,
                   mdDocxVars, jsonVars, docxVars, inlineVars>>

\* End of the outer loop: the last pending paragraph is flushed and the
\* elements are returned.
PdfReturn ==
    /\ md_pc = "pdf" /\ pdf_i >= Len(md_lines)
    /\ elements' = elements \o pdf_flush(current_paragraph)
    /\ md_pc' = "pdf_build"
    /\ UNCHANGED <<serviceVars, component, md_lines, pdf_i, current_paragraph, pdf_acc, pdf_exc,
                   pdf_result, mdDocxVars, jsonVars, docxVars, inlineVars>>

\* What doc.build(elements) and self.doc.save(output_path) can do, whatever
\* the blocks are: write the document, or raise (an output path that cannot
\* be written, a block the library rejects).
render_outcomes(blocks) == {"none", "RenderError"}

\* doc.build(elements), then return True; or the except clause, return False.
PdfBuild ==
    /\ md_pc = "pdf_build"
    /\ \E exc \in render_outcomes(elements) :
          /\ pdf_exc' = exc
          /\ pdf_result' = IF exc = "none" THEN "True" ELSE "False"
    /\ md_pc' = "docx"
    /\ UNCHANGED <<serviceVars, component, md_lines, pdf_i, elements, current_paragraph, pdf_acc,
                   mdDocxVars, jsonVars, docxVars, inlineVars>>

(***************************************************************************)
(* MarkdownToDocx._parse_markdown_to_document and markdown_text_to_docx.   *)
(***************************************************************************)
\* The if/elif chain of _parse_markdown_to_document on the stripped line.
docx_line_kind(line) ==
    IF line = <<>> THEN "blank"
    ELSE IF StartsWith(line, <<"<h1>">>) /\ EndsWith(line, <<"</h1>">>) THEN "h1"
    ELSE IF StartsWith(line, <<"<h2>">>) /\ EndsWith(line, <<"</h2>">>) THEN "h2"
    ELSE IF StartsWith(line, <<"<h3>">>) /\ EndsWith(line, <<"</h3>">>) THEN "h3"
    ELSE IF StartsWith(line, CodeOpen) THEN "code"
    ELSE IF StartsWith(line, <<"<blockquote>">>) THEN "quote"
    ELSE IF StartsWith(line, <<"<ul>">>) \/ StartsWith(line, <<"<ol>">>) THEN "list"
    ELSE IF StartsWith(line, <<"<p>">>) /\ EndsWith(line, <<"</p>">>) THEN "p"
    ELSE "other"

DocPara(style, runs) == [style |-> style, runs |-> runs]

\* self.doc.add_paragraph(text, style): one plain run, none for an empty text.
add_paragraph(text, style) ==
    DocPara(style, IF text = <<>> THEN <<>> ELSE <<Part(text, FALSE, FALSE, FALSE)>>)

\* add_paragraph(...) followed by _apply_text_formatting(paragraph, original_text):
\* the paragraph is cleared and gets one run per part.
formatted_paragraph(original_text, style) ==
    DocPara(style, _split_formatted_text(original_text))

\* What an iteration of the outer loop adds to the document for a line that
\* is a block by itself.
docx_block(kind, line) ==
    CASE kind = "h1" -> <<add_paragraph(docx_clean_html_tags(line), "Custom Title")>>
      [] kind = "h2" -> <<add_paragraph(docx_clean_html_tags(line), "Custom Heading 2")>>
      [] kind = "h3" -> <<add_paragraph(docx_clean_html_tags(line), "Custom Heading 3")>>
      [] kind = "code" ->
            <<add_paragraph(Remove(Remove(line, CodeOpen), CodeClose), "Custom Code")>>
      [] kind = "quote" ->
            <<add_paragraph(docx_clean_html_tags(Remove(Remove(line, <<"<blockquote>">>),
                                                        <<"</blockquote>">>)),
                            "Custom Quote")>>
      [] kind = "p" -> <<formatted_paragraph(docx_clean_html_tags(line), "Custom Normal")>>
      [] kind = "other" ->
            IF docx_clean_html_tags(line) # <<>>
            THEN <<formatted_paragraph(line, "Custom Normal")>>
            ELSE <<>>
      [] OTHER -> <<>>

DocxLine == Strip(md_lines[docx_i + 1])

\* Outer loop: a blank line, a heading, a paragraph, a one-line code block or
\* quote, or any other line.
DocxSingleLine ==
    /\ md_pc = "docx" /\ docx_i < Len(md_lines)
    /\ LET kind == docx_line_kind(DocxLine)
       IN  /\ kind \in {"blank", "other"} \/ single_line(kind, DocxLine)
           /\ doc_paragraphs' = doc_paragraphs \o docx_block(kind, DocxLine)
    /\ docx_i' = docx_i + 1
    /\ UNCHANGED <<serviceVars, component, md_lines, md_pc, pdfVars, docx_acc, docx_exc, docx_result,
                   jsonVars, docxVars, inlineVars>>

\* Outer loop, opening line of a multi-line code block or blockquote, or of a list.
DocxOpen ==
    /\ md_pc = "docx" /\ docx_i < Len(md_lines)
    /\ LET kind == docx_line_kind(DocxLine)
       IN  /\ kind \in {"code", "quote", "list"}
           /\ ~single_line(kind, DocxLine)
           /\ docx_acc' = CASE kind = "code" -> <<Remove(DocxLine, CodeOpen)>>
                            [] kind = "quote" -> <<Remove(DocxLine, <<"<blockquote>">>)>>
                            [] OTHER -> <<>>
           /\ md_pc' = CASE kind = "code" -> "docx_code"
                          [] kind = "quote" -> "docx_quote"
                          [] OTHER -> "docx_list"
    /\ docx_i' = docx_i + 1
    /\ UNCHANGED <<serviceVars, component, md_lines, pdfVars, doc_paragraphs, docx_exc, docx_result,
                   jsonVars, docxVars, inlineVars>>

DocxClose(pc) == IF pc = "docx_code" THEN CodeClose ELSE <<"</blockquote>">>

\* Inner loop of a code block or blockquote.
DocxBlockLine ==
    /\ md_pc \in {"docx_code", "docx_quote"}
    /\ in_block(md_lines, docx_i, DocxClose(md_pc))
    /\ docx_acc' = Append(docx_acc, md_lines[docx_i + 1])
    /\ docx_i' = docx_i + 1
    /\ UNCHANGED <<serviceVars, component, md_lines, md_pc, pdfVars, doc_paragraphs, docx_exc,
                   docx_result, jsonVars, docxVars, inlineVars>>

\* After the inner loop of a code block or blockquote.
DocxBlockEnd ==
    /\ md_pc \in {"docx_code", "docx_quote"}
    /\ ~in_block(md_lines, docx_i, DocxClose(md_pc))
    /\ LET raises == has_line(md_lines, docx_i) /\ docx_i >= Len(md_lines)
           all == IF has_line(md_lines, docx_i) /\ ~raises
                  THEN Append(docx_acc, Remove(md_lines[docx_i + 1], DocxClose(md_pc)))
                  ELSE docx_acc
           paragraph == IF md_pc = "docx_code"
                        THEN add_paragraph(Join(all, <<"\n">>), "Custom Code")
                        ELSE add_paragraph(docx_clean_html_tags(Join(all, <<" ">>)),
                                           "Custom Quote")
       IN  /\ docx_exc' = IF raises THEN "IndexError" ELSE docx_exc
           /\ docx_result' = IF raises THEN "False" ELSE docx_result
           /\ md_pc' = IF raises THEN "done" ELSE "docx"
           /\ doc_paragraphs' = IF raises THEN doc_paragraphs
                                ELSE Append(doc_paragraphs, paragraph)
           /\ docx_acc' = IF raises THEN docx_acc ELSE <<>>
           /\ docx_i' = IF raises THEN docx_i ELSE docx_i + 1
    /\ UNCHANGED <<serviceVars, component, md_lines, pdfVars, jsonVars, docxVars, inlineVars>>

\* Inner loop of a list: a line that starts with <li> becomes a paragraph.
DocxListLine ==
    /\ md_pc = "docx_list"
    /\ in_list(md_lines, docx_i)
    /\ doc_paragraphs' = IF StartsWith(DocxLine, <<"<li>">>)
                         THEN Append(doc_paragraphs,
                                     add_paragraph(docx_clean_html_tags(DocxLine), "List Bullet"))
                         ELSE doc_paragraphs
    /\ docx_i' = docx_i + 1
    /\ UNCHANGED <<serviceVars, component, md_lines, md_pc, pdfVars, docx_acc, docx_exc, docx_result,
                   jsonVars, docxVars, inlineVars>>

\* After the inner loop of a list.
DocxListEnd ==
    /\ md_pc = "docx_list"
    /\ ~in_list(md_lines, docx_i)
    /\ docx_i' = docx_i + 1
    /\ md_pc' = "docx"
    /\ UNCHANGED <<serviceVars, component, md_lines, pdfVars, doc_paragraphs, docx_acc, docx_exc,
                   docx_result, jsonVars, docxVars, inlineVars>>

\* End of the outer loop, self.doc.save(output_path), return True; or the
\* except clause, return False.
DocxSave ==
    /\ md_pc = "docx" /\ docx_i >= Len(md_lines)
    /\ \E exc \in render_outcomes(doc_paragraphs) :
          /\ docx_exc' = exc
          /\ docx_result' = IF exc = "none" THEN "True" ELSE "False"
    /\ md_pc' = "done"
    /\ UNCHANGED <<serviceVars, component, md_lines, pdfVars, docx_i, doc_paragraphs, docx_acc,
                   jsonVars, docxVars, inlineVars>>

NextMd ==
    \/ PdfBlank \/ PdfSingleLine \/ PdfOpen \/ PdfOther
    \/ PdfBlockLine \/ PdfBlockEnd \/ PdfListLine \/ PdfListEnd
    \/ PdfReturn \/ PdfBuild
    \/ DocxSingleLine \/ DocxOpen
    \/ DocxBlockLine \/ DocxBlockEnd \/ DocxListLine \/ DocxListEnd
    \/ DocxSave

SpecMd == InitMd /\ [][NextMd]_vars

(***************************************************************************)
(* Claims about the Markdown front ends.                                   *)
(***************************************************************************)
\* C5: for the HTML of "# Title\n\nHello **world**" the DOCX front end emits
\* the title "Title" and one paragraph with a plain run "Hello " and a bold
\* run "world".
C5_TitleAndBoldRun ==
    (md_pc = "done" /\ md_lines = <<L_h1, L_blank, L_p, L_blank>>) =>
        doc_paragraphs =
            << DocPara("Custom Title", <<Part(<<"Title">>, FALSE, FALSE, FALSE)>>),
               DocPara("Custom Normal", <<Part(<<"Hello", " ">>, FALSE, FALSE, FALSE),
                                          Part(<<"world">>, TRUE, FALSE, FALSE)>>) >>

\* The visible words of a text: neither tags nor whitespace nor list bullets.
PlainWords(text) ==
    Filter(text, LAMBDA t : t \notin AllTags /\ ~IsWhitespace(t) /\ t # Bullet)

ElementText(e) == IF e.flow = "Spacer" THEN <<>> ELSE e.text

PdfWords == PlainWords(Flatten([n \in 1..Len(elements) |-> ElementText(elements[n])]))

DocxWords ==
    PlainWords(Flatten([n \in 1..Len(doc_paragraphs) |-> PartsText(doc_paragraphs[n].runs)]))

\* C8: the plain text of the blocks either front end emits is the visible
\* text of the HTML lines, in order, nothing dropped and nothing doubled.
C8_TextPreserved ==
    md_pc = "done" =>
        /\ PdfWords = PlainWords(Flatten(md_lines))
        /\ DocxWords = PlainWords(Flatten(md_lines))

PdfScanning == {"pdf", "pdf_code", "pdf_quote", "pdf_list"}
DocxScanning == {"docx", "docx_code", "docx_quote", "docx_list"}

\* C9: in both front ends every iteration of the outer loop and of the inner
\* code-block, blockquote and list loops moves the line index forward, the
\* index never passes the end of the list by more than one (so the scan
\* ends), and no line is read at or beyond the end of the list.
C9_ScanTerminates ==
    [][/\ (md_pc \in PdfScanning /\ md_pc' \in PdfScanning) => pdf_i' > pdf_i
       /\ (md_pc \in DocxScanning /\ md_pc' \in DocxScanning) => docx_i' > docx_i
       /\ pdf_i' <= Len(md_lines) + 1 /\ docx_i' <= Len(md_lines) + 1
       /\ pdf_exc' # "IndexError" /\ docx_exc' # "IndexError"]_vars

\* A code block left open up to the end of the input was scanned by both.
C9_Witness ==
    /\ md_pc = "done"
    /\ Len(md_lines) = MaxLines
    /\ md_lines[1] = L_code_open
    /\ \A n \in 1..Len(md_lines) : ~EndsWith(Strip(md_lines[n]), CodeClose)
    /\ pdf_i = Len(md_lines) + 1
    /\ docx_i = Len(md_lines) + 1
    /\ pdf_exc # "IndexError" /\ docx_exc # "IndexError"

AllBlank == \A n \in 1..Len(md_lines) : Strip(md_lines[n]) = <<>>

NoCloseAfter(i, close) ==
    \A n \in (i + 1)..Len(md_lines) : ~EndsWith(Strip(md_lines[n]), close)

\* The lines of a block opened by line o and never closed.
UnclosedBlock(o, opener) ==
    <<Remove(Strip(md_lines[o]), opener)>> \o SubSeq(md_lines, o + 1, Len(md_lines))

PdfOpenedAt == pdf_i - Len(pdf_acc) + 1
DocxOpenedAt == docx_i - Len(docx_acc) + 1

\* C21: when the opening line of a code block or blockquote has no closing
\* marker on any later line, the scanner leaves the block only after the
\* last line, without an IndexError, having emitted exactly one block made
\* of the opening line's rest and all later lines (joined by newlines for
\* code, by spaces for a quote); in both front ends.
C21_ImplicitClose ==
    [][/\ (/\ md_pc \in {"pdf_code", "pdf_quote"}
           /\ md_pc' # md_pc
           /\ NoCloseAfter(PdfOpenedAt, PdfClose(md_pc))) =>
              /\ pdf_i = Len(md_lines)
              /\ pdf_i' = Len(md_lines) + 1
              /\ md_pc' = "pdf"
              /\ pdf_exc' = "none"
              /\ elements' = elements \o
                    IF md_pc = "pdf_code"
                    THEN <<Flowable("Preformatted",
                                    Join(UnclosedBlock(PdfOpenedAt, CodeOpen), <<"\n">>),
                                    "CustomCode"),
                           Spacer(12)>>
                    ELSE <<Flowable("Paragraph",
                                    pdf_clean_html_tags(
                                        Join(UnclosedBlock(PdfOpenedAt, <<"<blockquote>">>),
                                             <<" ">>)),
                                    "CustomQuote"),
                           Spacer(12)>>
       /\ (/\ md_pc \in {"docx_code", "docx_quote"}
           /\ md_pc' # md_pc
           /\ NoCloseAfter(DocxOpenedAt, DocxClose(md_pc))) =>
              /\ docx_i = Len(md_lines)
              /\ docx_i' = Len(md_lines) + 1
              /\ md_pc' = "docx"
              /\ docx_exc' = "none"
              /\ doc_paragraphs' = Append(doc_paragraphs,
                    IF md_pc = "docx_code"
                    THEN add_paragraph(Join(UnclosedBlock(DocxOpenedAt, CodeOpen), <<"\n">>),
                                       "Custom Code")
                    ELSE add_paragraph(
                             docx_clean_html_tags(
                                 Join(UnclosedBlock(DocxOpenedAt, <<"<blockquote>">>),
                                      <<" ">>)),
                             "Custom Quote"))]_vars

\* A blockquote opened in the first line and never closed took the two
\* lines after it.
C21_Witness ==
    /\ md_pc = "done"
    /\ md_lines = <<L_quote_open, L_text, L_li>>
    /\ pdf_i = 4 /\ docx_i = 4
    /\ Len(elements) = 2
    /\ elements[1].style = "CustomQuote"
    /\ elements[1].text = <<"loose", " ", "item">>
    /\ elements[2] = Spacer(12)
    /\ Len(doc_paragraphs) = 1
    /\ doc_paragraphs[1].style = "Custom Quote"

PendingParagraph == Flowable("Paragraph", Join(current_paragraph, <<" ">>), "CustomNormal")

\* C22: in the Markdown-to-PDF parser, processing a blank line or a block
\* marker line leaves the pending paragraph buffer empty, and the buffered
\* lines, if any, are emitted as one Paragraph before the block of that
\* line; any other line only appends its tag-stripped text to the buffer;
\* the buffer is empty inside multi-line blocks; at the end of the scan the
\* buffered lines are emitted as the last Paragraph; elements already
\* emitted are never changed or reordered.
C22_BufferFlush ==
    [][LET new == SubSeq(elements', Len(elements) + 1, Len(elements'))
           outer == md_pc = "pdf" /\ pdf_i < Len(md_lines)
       IN  /\ Len(elements') >= Len(elements)
           /\ SubSeq(elements', 1, Len(elements)) = elements
           /\ (outer /\ pdf_line_kind(PdfLine) # "other") =>
                 /\ current_paragraph' = <<>>
                 /\ IF current_paragraph # <<>>
                    THEN /\ Len(new) \in {1, 3}
                         /\ new[1] = PendingParagraph
                    ELSE Len(new) \in {0, 2}
           /\ (outer /\ pdf_line_kind(PdfLine) = "other") =>
                 /\ current_paragraph' =
                        Append(current_paragraph, Strip(RemoveAllTags(PdfLine)))
                 /\ elements' = elements
           /\ md_pc \in {"pdf_code", "pdf_quote", "pdf_list"} =>
                 current_paragraph = <<>> /\ current_paragraph' = <<>>
           /\ (md_pc = "pdf" /\ md_pc' = "pdf_build") =>
                 new = IF current_paragraph # <<>> THEN <<PendingParagraph>> ELSE <<>>]_vars

\* Two loose lines before a title: one paragraph, placed before the title.
C22_Witness ==
    /\ md_pc = "done"
    /\ md_lines = <<L_text, L_text, L_h1>>
    /\ elements = << Flowable("Paragraph", <<"loose", " ", "loose">>, "CustomNormal"),
                     Flowable("Paragraph", <<"Title">>, "CustomTitle"),
                     Spacer(12) >>

\* The spacer heights the block kinds call for.
SpacerHeights(e) ==
    IF e.style \in {"CustomTitle", "CustomCode", "CustomQuote"} THEN {12} ELSE 6..8

\* C23: in the story of the Markdown-to-PDF renderer every block flowable
\* (title, heading, paragraph, list item, code block, quote) is immediately
\* followed by a spacer of the height fixed by its kind.
C23_SpacerAfterBlock ==
    \A n \in 1..Len(elements) :
        elements[n].flow # "Spacer" =>
            /\ n < Len(elements)
            /\ elements[n + 1].flow = "Spacer"
            /\ elements[n + 1].height \in SpacerHeights(elements[n])

IsListOpen(l) == StartsWith(Strip(l), <<"<ul>">>) \/ StartsWith(Strip(l), <<"<ol>">>)
IsListClose(l) == StartsWith(Strip(l), <<"</ul>">>) \/ StartsWith(Strip(l), <<"</ol>">>)

\* The number of lists open after the first n lines.
RECURSIVE ListDepth(_)
ListDepth(n) ==
    IF n = 0 THEN 0
    ELSE ListDepth(n - 1) + (IF IsListOpen(md_lines[n]) THEN 1
                             ELSE IF IsListClose(md_lines[n]) THEN -1 ELSE 0)

\* Line m closes the list that line 1 opens.
MatchesFirst(m) == m > 1 /\ ListDepth(m) = 0 /\ \A n \in 1..(m - 1) : ListDepth(n) > 0

\* The lines starting with <li> between line 1 and line m.
ItemLines(m) ==
    SelectSeq(SubSeq(md_lines, 2, m - 1), LAMBDA l : StartsWith(Strip(l), <<"<li>">>))

\* C24: for a document that is one list (its first line opens a list, line m
\* is the closing line matching it, only blank lines follow), each front end
\* emits exactly one list item block per line starting with <li> between
\* the two, in order, and no other block.
C24_ListItems ==
    \A m \in 1..Len(md_lines) :
        (/\ md_pc = "done"
         /\ IsListOpen(md_lines[1])
         /\ MatchesFirst(m)
         /\ \A n \in (m + 1)..Len(md_lines) : Strip(md_lines[n]) = <<>>) =>
            /\ SelectSeq(elements, LAMBDA e : e.flow # "Spacer") =
                  [k \in 1..Len(ItemLines(m)) |->
                      Flowable("Paragraph",
                               <<Bullet, " ">> \o Strip(RemoveAllTags(ItemLines(m)[k])),
                               "CustomNormal")]
            /\ doc_paragraphs =
                  [k \in 1..Len(ItemLines(m)) |->
                      add_paragraph(Strip(RemoveAllTags(ItemLines(m)[k])), "List Bullet")]

Block(kind, words) == [kind |-> kind, words |-> words]

PdfBlockKind(e) ==
    CASE e.style = "CustomTitle" -> "title"
      [] e.style = "CustomHeading2" -> "heading 2"
      [] e.style = "CustomHeading3" -> "heading 3"
      [] e.style = "CustomCode" -> "code"
      [] e.style = "CustomQuote" -> "quote"
      [] OTHER -> IF StartsWith(e.text, <<Bullet>>) THEN "list item" ELSE "paragraph"

DocxBlockKind(p) ==
    CASE p.style = "Custom Title" -> "title"
      [] p.style = "Custom Heading 2" -> "heading 2"
      [] p.style = "Custom Heading 3" -> "heading 3"
      [] p.style = "Custom Code" -> "code"
      [] p.style = "Custom Quote" -> "quote"
      [] p.style = "List Bullet" -> "list item"
      [] OTHER -> "paragraph"

PdfBlocks ==
    LET blocks == SelectSeq(elements, LAMBDA e : e.flow # "Spacer")
    IN  [n \in 1..Len(blocks) |-> Block(PdfBlockKind(blocks[n]), PlainWords(blocks[n].text))]

DocxBlocks ==
    [n \in 1..Len(doc_paragraphs) |->
        Block(DocxBlockKind(doc_paragraphs[n]), PlainWords(PartsText(doc_paragraphs[n].runs)))]

\* C29: for every sequence of HTML lines the two front ends produce the same
\* number of blocks, with the same kinds and the same plain text, in the same
\* order.
C29_FrontEndsAgree == md_pc = "done" => PdfBlocks = DocxBlocks

(***************************************************************************)
(* JsonToExcel.validate_json_data.                                         *)
(* A JSON value is a list or not; an item of a list is a dictionary or     *)
(* not; of a dictionary only its key set matters to the validation.        *)
(***************************************************************************)
MaxRecords == 3

Keys == {"a", "b", "c"}

DictItem(ks) == [isdict |-> TRUE, keys |-> ks]
NonDictItem == [isdict |-> FALSE, keys |-> {}]
JsonList(items) == [islist |-> TRUE, items |-> items]

Items == {DictItem(ks) : ks \in SUBSET Keys} \cup {NonDictItem}

JsonInputs == {JsonList(s) : s \in SeqsUpTo(Items, MaxRecords)} \cup {NonList}

symmetric_difference(A, B) == (A \ B) \cup (B \ A)

\* Variants of too_different with one plausible slip each.
too_different_no_shortcut(current_keys, first_keys) ==
    2 * Cardinality(symmetric_difference(current_keys, first_keys))
        >= Cardinality(first_keys)

too_different_ge(current_keys, first_keys) ==
    /\ current_keys # first_keys
    /\ 2 * Cardinality(symmetric_difference(current_keys, first_keys))
           >= Cardinality(first_keys)

too_different_missing_only(current_keys, first_keys) ==
    /\ current_keys # first_keys
    /\ 2 * Cardinality(first_keys \ current_keys) > Cardinality(first_keys)

\* if current_keys != first_keys:
\*     if len(current_keys.symmetric_difference(first_keys)) > len(first_keys) * 0.5:
too_different(current_keys, first_keys) ==
    /\ current_keys # first_keys
    /\ 2 * Cardinality(symmetric_difference(current_keys, first_keys))
           > Cardinality(first_keys)

\* The value returned: (is_valid, message); idx is the item number the
\* message names (0 when it names none).
Verdict(ok, msg, idx) == [done |-> TRUE, is_valid |-> ok, msg |-> msg, idx |-> idx]

FirstIndex(P(_), lo, hi) == CHOOSE i \in lo..hi : P(i) /\ \A j \in lo..(i - 1) : ~P(j)

\* Variant of validate_json_data that compares every record with the record
\* before it.
validate_json_data_previous(d) ==
    IF ~d.islist THEN Verdict(FALSE, "Dados devem ser uma lista", 0)
    ELSE IF d.items = <<>> THEN Verdict(FALSE, "Lista de dados nao pode estar vazia", 0)
    ELSE LET n == Len(d.items)
             NotDict(i) == ~d.items[i].isdict
             Bad(i) == too_different(d.items[i].keys, d.items[i - 1].keys)
         IN  IF \E i \in 1..n : NotDict(i)
             THEN Verdict(FALSE, "Item i nao e um dicionario valido",
                          FirstIndex(NotDict, 1, n) - 1)
             ELSE IF \E i \in 2..n : Bad(i)
             THEN Verdict(FALSE, "Item i tem chaves muito diferentes do primeiro item",
                          FirstIndex(Bad, 2, n) - 1)
             ELSE Verdict(TRUE, "Dados validos", 0)

validate_json_data(d) ==
    IF ~d.islist THEN Verdict(FALSE, "Dados devem ser uma lista", 0)
    ELSE IF d.items = <<>> THEN Verdict(FALSE, "Lista de dados nao pode estar vazia", 0)
    ELSE LET n == Len(d.items)
             NotDict(i) == ~d.items[i].isdict
             first_keys == d.items[1].keys
             Bad(i) == too_different(d.items[i].keys, first_keys)
         IN  IF \E i \in 1..n : NotDict(i)
             THEN Verdict(FALSE, "Item i nao e um dicionario valido",
                          FirstIndex(NotDict, 1, n) - 1)
             ELSE IF \E i \in 2..n : Bad(i)
             THEN Verdict(FALSE, "Item i tem chaves muito diferentes do primeiro item",
                          FirstIndex(Bad, 2, n) - 1)
             ELSE Verdict(TRUE, "Dados validos", 0)

InitJson ==
    /\ component = "json"
    /\ json_data \in JsonInputs
    /\ json_result = NoResult
    /\ DocxIdle
    /\ InlineIdle
    /\ MdIdle
    /\ ServiceIdle

Validate ==
    /\ component = "json"
    /\ ~json_result.done
    /\ json_result' = validate_json_data(json_data)
    /\ UNCHANGED <<serviceVars, component, json_data, docxVars, inlineVars, mdVars>>

NextJson == Validate

SpecJson == InitJson /\ [][NextJson]_vars

(***************************************************************************)
(* Claims about validate_json_data.                                        *)
(***************************************************************************)
AllDicts(d) == d.islist /\ \A i \in 1..Len(d.items) : d.items[i].isdict

KeysOf(d, i) == d.items[i].keys

\* Record i shares no key with any other record of the list.
DisjointFromRest(d, i) ==
    \A j \in 1..Len(d.items) : j # i => KeysOf(d, i) \cap KeysOf(d, j) = {}

\* C2: a non-empty list of dictionaries that all have the same key set is
\* reported valid.
C2_IdenticalKeysValid ==
    (/\ json_result.done
     /\ AllDicts(json_data)
     /\ Len(json_data.items) >= 1
     /\ \A i \in 1..Len(json_data.items) : KeysOf(json_data, i) = KeysOf(json_data, 1))
    => json_result.is_valid

C2_Witness ==
    /\ json_result.done
    /\ AllDicts(json_data)
    /\ Len(json_data.items) = MaxRecords
    /\ \A i \in 1..Len(json_data.items) : KeysOf(json_data, i) = {"a", "b"}
    /\ json_result.is_valid

\* C3 as stated: a list of at least two dictionaries in which one record's
\* key set has no key in common with any other record's is reported invalid.
C3_DisjointInvalid_Original ==
    (/\ json_result.done
     /\ AllDicts(json_data)
     /\ Len(json_data.items) >= 2
     /\ \E i \in 1..Len(json_data.items) : DisjointFromRest(json_data, i))
    => ~json_result.is_valid

\* C3 (amended): a list of at least two dictionaries, not all of them with an
\* empty key set, in which one record's key set has no key in common with any
\* other record's is reported invalid, wherever that record stands.
C3_DisjointInvalid ==
    (/\ json_result.done
     /\ AllDicts(json_data)
     /\ Len(json_data.items) >= 2
     /\ \E i \in 1..Len(json_data.items) : KeysOf(json_data, i) # {}
     /\ \E i \in 1..Len(json_data.items) : DisjointFromRest(json_data, i))
    => ~json_result.is_valid

\* The disjoint record stands in the middle of the list.
C3_Witness ==
    /\ json_result.done
    /\ AllDicts(json_data)
    /\ Len(json_data.items) = 3
    /\ KeysOf(json_data, 1) = {"a", "b"}
    /\ KeysOf(json_data, 2) = {"c"}
    /\ KeysOf(json_data, 3) = {"a", "b"}
    /\ ~json_result.is_valid

\* C4: a non-empty list of dictionaries is rejected exactly when some record
\* after the first differs from the first record's key set in more keys
\* (symmetric difference) than half the first record's key count.
C4_Threshold ==
    (/\ json_result.done
     /\ AllDicts(json_data)
     /\ Len(json_data.items) >= 1)
    => (~json_result.is_valid <=>
          \E i \in 2..Len(json_data.items) :
              2 * Cardinality(symmetric_difference(KeysOf(json_data, i),
                                                   KeysOf(json_data, 1)))
                  > Cardinality(KeysOf(json_data, 1)))

\* One differing key against two keys (exactly 50%) is accepted.
C4_Witness ==
    /\ json_result.done
    /\ AllDicts(json_data)
    /\ Len(json_data.items) = 2
    /\ KeysOf(json_data, 1) = {"a", "b"}
    /\ KeysOf(json_data, 2) = {"a"}
    /\ json_result.is_valid


\* The reorderings of a list of n records.
Perms(n) == {f \in [1..n -> 1..n] : \A i, j \in 1..n : f[i] = f[j] => i = j}

Reordered(d, f) == JsonList([i \in 1..Len(d.items) |-> d.items[f[i]]])

\* C28, as stated: for a list of dictionary records the verdict of
\* validate_json_data is the same for every reordering of the records.
C28_OrderIndependent_Original ==
    (json_result.done /\ AllDicts(json_data)) =>
        \A f \in Perms(Len(json_data.items)) :
            validate_json_data(Reordered(json_data, f)).is_valid = json_result.is_valid

\* C28: for a non-empty list of dictionary records the verdict of
\* validate_json_data is the same for every reordering of the records that
\* leaves the first record in its place.
C28_OrderIndependent ==
    (json_result.done /\ AllDicts(json_data) /\ json_data.items # <<>>) =>
        \A f \in Perms(Len(json_data.items)) :
            f[1] = 1 =>
                validate_json_data(Reordered(json_data, f)).is_valid = json_result.is_valid

\* A valid list of three records with different key sets; it stays valid
\* with the last two exchanged and becomes invalid with the first two
\* exchanged.
C28_Witness ==
    /\ json_result.done
    /\ json_data = JsonList(<<DictItem({"a", "b"}), DictItem({"a"}), DictItem({"a", "b", "c"})>>)
    /\ json_result.is_valid
    /\ validate_json_data(Reordered(json_data, <<1, 3, 2>>)).is_valid
    /\ ~validate_json_data(Reordered(json_data, <<2, 1, 3>>)).is_valid

(***************************************************************************)
(* The request handlers (src/api/index.py, src/app.py) and the temp files  *)
(* they and DocxToPdf.convert_docx_content_to_pdf create.  A behaviour     *)
(* serves one request, or runs one direct call of the converter.  The      *)
(* handlers' probe of the converter class (its constructor) succeeds.      *)
(* Creating, writing and reading a file can raise; os.unlink succeeds.     *)
(***************************************************************************)
MaxPrefix == 3

\* The bytes a file content starts with.
Byte == {"P", "K", "x"}

PK == <<"P", "K">>

DocxToPdfEntry == "handle_docx_to_pdf_conversion"
CoreEntry == ConvertEntry
MarkdownEntries == {"handle_pdf_conversion", "handle_docx_conversion"}
ExcelEntries ==
    {"handle_excel_conversion", "converter_json_para_excel_api",
     "converter_json_para_excel_base64"}
FlaskEntries == {"converter_json_para_excel_api", "converter_json_para_excel_base64"}
FlaskMarkdownEntries ==
    {"converter_markdown_para_pdf_api", "converter_markdown_para_docx_api"}
\* The Flask endpoints that answer with the converted file as an attachment.
DownloadEntries == FlaskMarkdownEntries \cup {"converter_json_para_excel_api"}

\* content: the first bytes of the decoded file; wellformed: python-docx can
\* parse it; json: the value of dados_json; scalar: the value of the field
\* (dados_json, texto_markdown) is a number or a boolean (true, non-zero),
\* which has no len().
Request(entry, shape, content, wellformed, json, scalar) ==
    [entry |-> entry, shape |-> shape, content |-> content, wellformed |-> wellformed,
     json |-> json, scalar |-> scalar]

\* shape: what the request body looks like up to the field the handler reads;
\* "ok" when the field is present and not empty (and decodes, for base64).
Requests ==
    { Request(DocxToPdfEntry, s, <<>>, FALSE, NonList, FALSE) :
        s \in {"not_dict", "missing", "empty", "bad_base64"} }
    \cup { Request(e, "ok", c, w, NonList, FALSE) :
             e \in {DocxToPdfEntry, CoreEntry}, c \in SeqsUpTo(Byte, MaxPrefix),
             w \in BOOLEAN }
    \cup { Request(CreatePdfEntry, "ok", <<>>, FALSE, NonList, FALSE) }
    \cup { Request(e, s, <<>>, FALSE, NonList, FALSE) :
             e \in MarkdownEntries, s \in {"missing", "empty", "ok"} }
    \cup { Request(e, s, <<>>, FALSE, NonList, FALSE) :
             e \in ExcelEntries, s \in {"missing", "empty"} }
    \cup { Request(e, "not_json", <<>>, FALSE, NonList, FALSE) :
             e \in FlaskEntries \cup FlaskMarkdownEntries }
    \cup { Request(e, s, <<>>, FALSE, NonList, FALSE) :
             e \in FlaskMarkdownEntries, s \in {"missing", "empty", "ok"} }
    \cup { Request(e, "ok", <<>>, FALSE, NonList, TRUE) : e \in FlaskMarkdownEntries }
    \cup { Request(e, "ok", <<>>, FALSE, j, FALSE) :
             e \in ExcelEntries, j \in JsonInputs \ {JsonList(<<>>)} }
    \cup { Request(e, "ok", <<>>, FALSE, NonList, TRUE) : e \in ExcelEntries }

\* Variant of docx_request_error without the test of the magic bytes.
docx_request_error_no_magic(r) ==
    IF r.shape = "ok" THEN "none" ELSE r.shape

\* handle_docx_to_pdf_conversion, the validation of the request: the error
\* it answers with status 400, or "none".
docx_request_error(r) ==
    IF r.shape = "not_dict" THEN "not_dict"
    ELSE IF r.shape = "missing" THEN "missing"
    ELSE IF r.shape = "empty" THEN "empty"
    ELSE IF r.shape = "bad_base64" THEN "bad_base64"
    ELSE IF ~StartsWith(r.content, PK) THEN "not_docx"
    ELSE "none"

\* The validation of the required field in the other handlers.
field_error(r) == IF r.shape = "ok" THEN "none" ELSE r.shape

request_error(r) ==
    IF r.entry = DocxToPdfEntry THEN docx_request_error(r) ELSE field_error(r)

\* Variant of core_except in which the exception leaves the converter.
core_except_propagates(exc) == "raise"

\* convert_docx_content_to_pdf: `except Exception as e: ... return False`.
core_except(exc) == "False"

InitHandler ==
    /\ component = "handler"
    /\ rq \in Requests
    /\ h_pc = IF rq.entry = CoreEntry THEN "stage"
              ELSE IF rq.entry = CreatePdfEntry THEN "build"
              ELSE "validate"
    /\ tmp_files = {}
    /\ h_locals = {}
    /\ h_events = {}
    /\ h_status = 0
    /\ core_result = "none"
    /\ JsonIdle
    /\ DocxIdle
    /\ InlineIdle
    /\ MdIdle
    /\ ExcelIdle
    /\ GetIdle

\* The handler validates the request: status 400, or on to the temp file.
\* The download endpoints log len(dados_json) or len(texto_markdown) on the
\* way, which raises for a number or a boolean.
HValidate ==
    /\ h_pc = "validate"
    /\ h_status' = IF request_error(rq) # "none" THEN 400 ELSE h_status
    /\ h_pc' = IF request_error(rq) # "none" THEN "done"
               ELSE IF rq.entry \in DownloadEntries /\ rq.scalar THEN "except"
               ELSE "create_temp"
    /\ UNCHANGED <<component, rq, tmp_files, h_locals, h_events, core_result,
                   excelVars, getVars, converterVars>>

\* with tempfile.NamedTemporaryFile(delete=False, suffix=...) as temp_file:
\*     temp_path = temp_file.name
HCreateTemp ==
    /\ h_pc = "create_temp"
    /\ \E created \in BOOLEAN :
          /\ tmp_files' = IF created THEN tmp_files \cup {"output"} ELSE tmp_files
          /\ h_locals' = IF created THEN h_locals \cup {"temp_path"} ELSE h_locals
          /\ h_events' = IF created THEN h_events \cup {"output_created"} ELSE h_events
          /\ h_pc' = IF created THEN "construct" ELSE "except"
    /\ UNCHANGED <<component, rq, h_status, core_result, excelVars, getVars, converterVars>>

\* converter = JsonToExcel() (or MarkdownToPDFReportLab(), MarkdownToDocx(),
\* DocxToPdf()): the constructor can raise.
HConstruct ==
    /\ h_pc = "construct"
    /\ \E constructed \in BOOLEAN :
          h_pc' = IF ~constructed THEN "except"
                  ELSE IF rq.entry \in ExcelEntries THEN "validate_data"
                  ELSE IF rq.entry = DocxToPdfEntry THEN "stage"
                  ELSE "convert"
    /\ UNCHANGED <<component, rq, tmp_files, h_locals, h_events, h_status, core_result,
                   excelVars, getVars, converterVars>>

\* The JSON-to-Excel handlers: converter.validate_json_data(dados_json), and
\* the response with status 400 when it rejects the data.
HValidateData ==
    /\ h_pc = "validate_data"
    /\ h_events' = h_events \cup {"data_validated"}
    /\ h_status' = IF validate_json_data(rq.json).is_valid THEN h_status ELSE 400
    /\ h_pc' = IF validate_json_data(rq.json).is_valid THEN "convert" ELSE "done"
    /\ UNCHANGED <<component, rq, tmp_files, h_locals, core_result,
                   excelVars, getVars, converterVars>>

\* The Markdown and JSON-to-Excel handlers call the converter, which returns
\* True after writing the output file, or False.
HConvert ==
    /\ h_pc = "convert"
    /\ \E written \in BOOLEAN :
          /\ core_result' = IF written THEN "True" ELSE "False"
          /\ h_events' = IF written THEN h_events \cup {"output_written"} ELSE h_events
    /\ h_pc' = "check"
    /\ UNCHANGED <<component, rq, tmp_files, h_locals, h_status, excelVars, getVars, converterVars>>

\* convert_docx_content_to_pdf: the bytes are staged in a temp file.
\*     with tempfile.NamedTemporaryFile(delete=False, suffix='.docx') as tmp:
\*         tmp.write(docx_bytes)
\*         temp_input = tmp.name
\* The file exists from the first line on; temp_input is bound by the last.
CoreStage ==
    /\ h_pc = "stage"
    /\ \E outcome \in {"ok", "create_fails", "write_fails"} :
          /\ tmp_files' = IF outcome = "create_fails" THEN tmp_files
                          ELSE tmp_files \cup {"staged"}
          /\ h_events' = IF outcome = "create_fails" THEN h_events
                         ELSE h_events \cup {"staged_created"}
          /\ h_locals' = IF outcome = "ok" THEN h_locals \cup {"temp_input"} ELSE h_locals
          /\ core_result' = IF outcome = "ok" THEN core_result ELSE core_except(outcome)
          /\ h_pc' = IF outcome = "ok" THEN "extract" ELSE "finally"
    /\ UNCHANGED <<component, rq, h_status, excelVars, getVars, converterVars>>

\* What extract_ordered_content raises for the staged file: Document(docx_path)
\* raises for a file that is not a Word package; for one that it opens, the
\* loop over iter_block_items raises.
extract_exception(r) ==
    IF ~r.wellformed THEN "PackageNotFoundError"
    ELSE extract_ordered_content(<<>>).exc

\* content = self.extract_ordered_content(temp_input), which logs and
\* re-raises what goes wrong.
CoreExtract ==
    /\ h_pc = "extract"
    /\ h_events' = h_events \cup {"parse_attempted"}
                            \cup (IF extract_exception(rq) # "none"
                                  THEN {"extract_failed"} ELSE {})
    /\ core_result' = IF extract_exception(rq) # "none"
                      THEN core_except(extract_exception(rq)) ELSE core_result
    /\ h_pc' = IF extract_exception(rq) # "none" THEN "finally" ELSE "build"
    /\ UNCHANGED <<component, rq, tmp_files, h_locals, h_status, excelVars, getVars, converterVars>>

\* success = self.create_pdf(content, pdf_path), or a call of create_pdf
\* itself: doc.build(story) writes the output file and create_pdf returns
\* True, or it raises and create_pdf returns False.
CoreBuild ==
    /\ h_pc = "build"
    /\ \E built \in BOOLEAN :
          /\ h_events' = h_events \cup {"builder_invoked"}
                                  \cup (IF built THEN {"output_written"} ELSE {"render_failed"})
          /\ tmp_files' = IF built THEN tmp_files \cup {"output"} ELSE tmp_files
          /\ core_result' = IF built THEN "True" ELSE "False"
    /\ h_pc' = IF rq.entry = CreatePdfEntry THEN "done" ELSE "finally"
    /\ UNCHANGED <<component, rq, h_locals, h_status, excelVars, getVars, converterVars>>

\* finally: if temp_input and os.path.exists(temp_input): os.unlink(temp_input);
\* then the converter returns (or the exception goes on to the caller).
CoreFinally ==
    /\ h_pc = "finally"
    /\ tmp_files' = IF "temp_input" \in h_locals THEN tmp_files \ {"staged"} ELSE tmp_files
    /\ h_pc' = IF rq.entry = CoreEntry THEN "done"
               ELSE IF core_result = "raise" THEN "except"
               ELSE "check"
    /\ UNCHANGED <<component, rq, h_locals, h_events, h_status, core_result,
                   excelVars, getVars, converterVars>>

\* if not sucesso: the output file is removed and status 500 returned.
HCheck ==
    /\ h_pc = "check"
    /\ tmp_files' = IF core_result = "True" THEN tmp_files ELSE tmp_files \ {"output"}
    /\ h_status' = IF core_result = "True" THEN h_status ELSE 500
    /\ h_pc' = IF core_result # "True" THEN "done"
               ELSE IF rq.entry \in DownloadEntries THEN "send_file"
               ELSE "read"
    /\ UNCHANGED <<component, rq, h_locals, h_events, core_result, excelVars, getVars, converterVars>>

\* The base64 handlers: the output file is read (which can raise), removed
\* with os.unlink(temp_path), and status 200 returned.
HRead ==
    /\ h_pc = "read"
    /\ \E done \in BOOLEAN :
          /\ tmp_files' = IF done THEN tmp_files \ {"output"} ELSE tmp_files
          /\ h_status' = IF done THEN 200 ELSE h_status
          /\ h_pc' = IF done THEN "done" ELSE "except"
    /\ UNCHANGED <<component, rq, h_locals, h_events, core_result, excelVars, getVars, converterVars>>

\* The download endpoints: return send_file(temp_path, ...), 200.  The output
\* file stays where it is: send_file opens it for the response, and the
\* endpoints register nothing that would remove it afterwards (remove_file
\* in converter_markdown_para_pdf_api is defined and never used).
HSendFile ==
    /\ h_pc = "send_file"
    /\ \E sent \in BOOLEAN :
          /\ h_status' = IF sent THEN 200 ELSE h_status
          /\ h_pc' = IF sent THEN "done" ELSE "except"
    /\ UNCHANGED <<component, rq, tmp_files, h_locals, h_events, core_result,
                   excelVars, getVars, converterVars>>

\* except Exception: the output file is removed if temp_path is bound, and
\* status 500 returned.
HExcept ==
    /\ h_pc = "except"
    /\ tmp_files' = IF "temp_path" \in h_locals THEN tmp_files \ {"output"} ELSE tmp_files
    /\ h_status' = 500
    /\ h_pc' = "done"
    /\ UNCHANGED <<component, rq, h_locals, h_events, core_result, excelVars, getVars, converterVars>>

NextHandler ==
    \/ HValidate \/ HCreateTemp \/ HConstruct \/ HValidateData \/ HConvert
    \/ CoreStage \/ CoreExtract \/ CoreBuild \/ CoreFinally
    \/ HCheck \/ HRead \/ HSendFile \/ HExcept

SpecHandler == InitHandler /\ [][NextHandler]_vars

(***************************************************************************)
(* Claims about the request handlers and the DOCX-to-PDF converter.        *)
(***************************************************************************)
\* C11: a DOCX-to-PDF request whose decoded content does not start with
\* 'PK' is answered with status 400 straight from the validation, and
\* neither the output temp file nor the staged input file is ever created.
C11_NoMagicRejected ==
    (rq.entry = DocxToPdfEntry /\ ~StartsWith(rq.content, PK)) =>
        /\ h_pc \in {"validate", "done"}
        /\ h_events \cap {"output_created", "staged_created"} = {}
        /\ tmp_files = {}
        /\ h_pc = "done" => h_status = 400

\* A decoded content of at least two bytes, not 'PK', was rejected.
C11_Witness ==
    /\ rq.entry = DocxToPdfEntry
    /\ rq.shape = "ok"
    /\ Len(rq.content) >= 2
    /\ ~StartsWith(rq.content, PK)
    /\ h_pc = "done"
    /\ h_status = 400
    /\ tmp_files = {}

\* C12: convert_docx_content_to_pdf called with bytes that do not start with
\* 'PK' reports failure before it stages the bytes in a temp file and before
\* it tries to parse them.
C12_CoreChecksMagic ==
    (rq.entry = CoreEntry /\ ~StartsWith(rq.content, PK)) =>
        /\ "staged_created" \notin h_events
        /\ "parse_attempted" \notin h_events
        /\ h_pc = "done" => core_result = "False"

\* C15: in every JSON-to-Excel handler, when validate_json_data rejects the
\* data, the error is returned without a temp file having been created,
\* and no temp file exists when the handler has returned.
C15_ValidationBeforeTempFile ==
    (/\ rq.entry \in ExcelEntries
     /\ rq.shape = "ok"
     /\ ~validate_json_data(rq.json).is_valid
     /\ h_pc = "done"
     /\ h_status = 400) =>
        /\ "output_created" \notin h_events
        /\ tmp_files = {}

\* C16: when the Markdown-to-PDF, Markdown-to-DOCX or DOCX-to-PDF base64
\* handler returns after a temp file was created, neither its output temp
\* file nor the converter's staged input file exists.
C16_TempFilesRemoved ==
    (/\ rq.entry \in MarkdownEntries \cup {DocxToPdfEntry}
     /\ h_pc = "done"
     /\ "output_created" \in h_events) =>
        tmp_files = {}

\* C17: convert_docx_content_to_pdf never raises; when the extraction fails
\* the PDF builder is not invoked, nothing is written to the output path and
\* the call returns False; when the rendering fails it returns False.
C17_MalformedOneFailure ==
    rq.entry \in {CoreEntry, DocxToPdfEntry, CreatePdfEntry} =>
        /\ core_result # "raise"
        /\ "extract_failed" \in h_events =>
              /\ "builder_invoked" \notin h_events
              /\ "output_written" \notin h_events
              /\ h_pc \in {"finally", "check", "done"}
              /\ core_result = "False"
        /\ "render_failed" \in h_events =>
              /\ "output_written" \notin h_events
              /\ core_result = "False"

\* A direct call with a malformed document returned False.
C17_Witness ==
    /\ rq.entry = CoreEntry
    /\ ~rq.wellformed
    /\ h_pc = "done"
    /\ "extract_failed" \in h_events
    /\ "staged_created" \in h_events
    /\ core_result = "False"
    /\ tmp_files = {}

\* dados_json is present and not empty, and is not a list of dictionaries.
MalformedRecords ==
    /\ rq.entry \in ExcelEntries
    /\ rq.shape = "ok"
    /\ \/ rq.scalar
       \/ ~rq.json.islist
       \/ \E i \in 1..Len(rq.json.items) : ~rq.json.items[i].isdict

\* C27: in every JSON-to-Excel endpoint a request whose dados_json is present
\* and not empty but is not a list of dictionaries is answered with the
\* validation error, status 400: its validation steps raise no exception,
\* and validate_json_data ends it with status 400.
C27_MalformedIs400 ==
    [][MalformedRecords =>
          /\ h_pc = "validate" => h_pc' # "except"
          /\ h_pc = "validate_data" => (h_pc' = "done" /\ h_status' = 400)]_vars

\* C26: in the Flask endpoints that return the converted document as an
\* attachment, the temp file created for the request does not outlive a
\* successful response.  The handler's return is its last step, no step of
\* the program follows it, so the file has to be gone by then.
C26_DownloadTempRemoved ==
    (rq.entry \in DownloadEntries /\ h_pc = "done" /\ h_status = 200) =>
        tmp_files = {}

(***************************************************************************)
(* JsonToExcel.json_to_excel_file and json_string_to_excel.                *)
(* Of a cell only the length of its stringified value matters; a record    *)
(* maps its keys to those lengths.  A value that is not a dictionary is a  *)
(* scalar, which the data frame puts in a single column named 0.           *)
(***************************************************************************)
MaxRows == 3

XlLens == {1, 9, 20, 49, 60}

\* len(str(float('nan'))): the cell of a record that lacks the column.
NanLen == 3

\* len(str(column name)).
HeaderLen == 1

KeyOrder == <<"a", "b">>

ScalarColumn == "0"

HEADER_FILL == "4472C4"

ALT_FILL == "F2F2F2"

NO_FILL == "none"

XlRecord(vals) == [isdict |-> TRUE, keys |-> DOMAIN vals, vals |-> vals]

XlScalar(n) == [isdict |-> FALSE, keys |-> {}, vals |-> [k \in {ScalarColumn} |-> n]]

XlItems ==
    {XlRecord([k \in {"a"} |-> n]) : n \in XlLens}
    \cup {XlRecord([k \in {"a", "b"} |-> IF k = "a" THEN n ELSE 1]) : n \in XlLens}
    \cup {XlRecord([k \in {"b"} |-> 1])}
    \cup {XlScalar(1)}

XlInputs == {JsonList(s) : s \in SeqsUpTo(XlItems, MaxRows)} \cup {NonList}

FileEntry == "json_to_excel_file"

StringEntry == "json_string_to_excel"

AllScalars(d) == d.islist /\ \A i \in 1..Len(d.items) : ~d.items[i].isdict

Mixed(d) == d.islist /\ ~AllDicts(d) /\ ~AllScalars(d)

\* pd.DataFrame(json_data).columns: the keys in order of first appearance.
RECURSIVE frame_columns(_, _)
frame_columns(items, n) ==
    IF n = 0 THEN <<>>
    ELSE LET cols == frame_columns(items, n - 1)
             seen == {cols[j] : j \in 1..Len(cols)}
         IN  cols \o SelectSeq(KeyOrder, LAMBDA k : k \in items[n].keys /\ k \notin seen)

columns(d) ==
    IF d.items[1].isdict THEN frame_columns(d.items, Len(d.items)) ELSE <<ScalarColumn>>

\* The frame's value for record i and column col, NaN when the record lacks it.
frame_cell(d, i, col) ==
    IF col \in DOMAIN d.items[i].vals THEN d.items[i].vals[col] ELSE NanLen

Row(kind, cells) == [kind |-> kind, cells |-> cells, fill |-> NO_FILL]

\* dataframe_to_rows(df, index=False, header=True): the header, then one row
\* per record.
dataframe_to_rows(d) ==
    LET cols == columns(d)
    IN  <<Row("header", [j \in 1..Len(cols) |-> HeaderLen])>>
        \o [i \in 1..Len(d.items) |->
               Row("data", [j \in 1..Len(cols) |-> frame_cell(d, i, cols[j])])]

\* _apply_formatting, the header loop.
format_header(rows) ==
    [r \in 1..Len(rows) |-> IF r = 1 THEN [rows[r] EXCEPT !.fill = HEADER_FILL] ELSE rows[r]]

data_fill_always(row_idx, fill) == ALT_FILL

\* `if row_idx % 2 == 0: cell.fill = self.alt_fill`
data_fill(row_idx, fill) == IF row_idx % 2 = 0 THEN ALT_FILL ELSE fill

\* _apply_formatting, the loop over range(2, data_rows + 2).
format_data(rows, data_rows) ==
    [r \in 1..Len(rows) |->
        IF r \in 2..(data_rows + 1)
        THEN [rows[r] EXCEPT !.fill = data_fill(r, rows[r].fill)]
        ELSE rows[r]]

\* The inner loop over the cells of column j: the first n rows.
RECURSIVE max_length(_, _, _)
max_length(rows, j, n) ==
    IF n = 0 THEN 0
    ELSE LET m == max_length(rows, j, n - 1)
             l == rows[n].cells[j]
         IN  IF l > m THEN l ELSE m

Min2(a, b) == IF a < b THEN a ELSE b

Max2(a, b) == IF a > b THEN a ELSE b

adjusted_width_unpadded(max_len) == Min2(Max2(max_len, 10), 50)

\* adjusted_width = min(max(max_length + 2, 10), 50)
adjusted_width(max_len) == Min2(Max2(max_len + 2, 10), 50)

column_widths(rows) ==
    [j \in 1..Len(rows[1].cells) |-> adjusted_width(max_length(rows, j, Len(rows)))]

\* json_to_excel_file: `except Exception as e: ... return False`.
file_except(exc) == "False"

InitExcel ==
    /\ component = "excel"
    /\ xl_entry \in {FileEntry, StringEntry}
    /\ xl_data \in XlInputs
    /\ xl_fmt \in BOOLEAN
    /\ xl_pc = IF xl_entry = StringEntry THEN "validate" ELSE "guard"
    /\ xl_rows = <<>>
    /\ xl_widths = <<>>
    /\ xl_events = {}
    /\ xl_result = "none"
    /\ JsonIdle
    /\ DocxIdle
    /\ InlineIdle
    /\ MdIdle
    /\ HandlerIdle
    /\ GetIdle

\* json_string_to_excel: validate_json_data on the parsed string.
XlValidate ==
    /\ component = "excel"
    /\ xl_pc = "validate"
    /\ IF validate_json_data(xl_data).is_valid
       THEN xl_pc' = "guard" /\ UNCHANGED xl_result
       ELSE xl_pc' = "done" /\ xl_result' = "False"
    /\ UNCHANGED <<component, xl_entry, xl_data, xl_fmt, xl_rows, xl_widths, xl_events,
                   handlerVars, getVars, converterVars>>

\* `if not json_data or not isinstance(json_data, list): return False`
XlGuard ==
    /\ component = "excel"
    /\ xl_pc = "guard"
    /\ IF ~xl_data.islist \/ xl_data.items = <<>>
       THEN xl_pc' = "done" /\ xl_result' = "False"
       ELSE xl_pc' = "frame" /\ UNCHANGED xl_result
    /\ UNCHANGED <<component, xl_entry, xl_data, xl_fmt, xl_rows, xl_widths, xl_events,
                   handlerVars, getVars, converterVars>>

\* df = pd.DataFrame(json_data).  When the first item is a dictionary the
\* frame is built from the items' keys, which raises for an item that has
\* none; otherwise the items are the values of a single column.
XlFrame ==
    /\ component = "excel"
    /\ xl_pc = "frame"
    /\ IF xl_data.items[1].isdict /\ ~AllDicts(xl_data)
       THEN /\ xl_pc' = "done"
            /\ xl_result' = file_except("DataFrame")
            /\ UNCHANGED xl_events
       ELSE /\ xl_pc' = "workbook"
            /\ xl_events' = xl_events \cup {"frame_built"}
            /\ UNCHANGED xl_result
    /\ UNCHANGED <<component, xl_entry, xl_data, xl_fmt, xl_rows, xl_widths,
                   handlerVars, getVars, converterVars>>

\* self.workbook = Workbook(); worksheet = self.workbook.active
XlWorkbook ==
    /\ component = "excel"
    /\ xl_pc = "workbook"
    /\ xl_events' = xl_events \cup {"workbook_created"}
    /\ xl_pc' = IF xl_fmt THEN "styles" ELSE "append"
    /\ UNCHANGED <<component, xl_entry, xl_data, xl_fmt, xl_rows, xl_widths, xl_result,
                   handlerVars, getVars, converterVars>>

\* `if apply_formatting: self._setup_default_styles()`, which builds the
\* style objects and may raise.
XlStyles ==
    /\ component = "excel"
    /\ xl_pc = "styles"
    /\ \E ok \in BOOLEAN :
        IF ok
        THEN xl_pc' = "append" /\ UNCHANGED <<xl_events, xl_result>>
        ELSE /\ xl_pc' = "done"
             /\ xl_events' = xl_events \cup {"styles_failed"}
             /\ xl_result' = file_except("styles")
    /\ UNCHANGED <<component, xl_entry, xl_data, xl_fmt, xl_rows, xl_widths,
                   handlerVars, getVars, converterVars>>

\* `for r in dataframe_to_rows(df, index=False, header=True): worksheet.append(r)`
\* A cell cannot hold a dictionary: the append of such a row raises, after
\* the rows before it were appended.
XlAppend ==
    /\ component = "excel"
    /\ xl_pc = "append"
    /\ IF Mixed(xl_data)
       THEN LET IsDict(i) == xl_data.items[i].isdict
                k == FirstIndex(IsDict, 1, Len(xl_data.items))
            IN  /\ xl_rows' = SubSeq(dataframe_to_rows(xl_data), 1, k)
                /\ xl_events' = xl_events \cup {"rows_written"}
                /\ xl_pc' = "done"
                /\ xl_result' = file_except("append")
       ELSE /\ xl_rows' = dataframe_to_rows(xl_data)
            /\ xl_events' = xl_events \cup {"rows_written"}
            /\ xl_pc' = IF xl_fmt THEN "format" ELSE "save"
            /\ UNCHANGED xl_result
    /\ UNCHANGED <<component, xl_entry, xl_data, xl_fmt, xl_widths,
                   handlerVars, getVars, converterVars>>

\* `if apply_formatting: self._apply_formatting(worksheet, len(df))`: the
\* three loops in order; an exception in one of them is logged and the
\* method returns.
XlFormat ==
    /\ component = "excel"
    /\ xl_pc = "format"
    /\ \E fail_at \in {"none", "header", "data", "widths"} :
        LET h == format_header(xl_rows)
            d == format_data(h, Len(xl_data.items))
        IN  /\ xl_rows' = IF fail_at = "header" THEN xl_rows
                          ELSE IF fail_at = "data" THEN h ELSE d
            /\ xl_widths' = IF fail_at = "none" THEN column_widths(d) ELSE xl_widths
            /\ xl_events' = IF fail_at = "none" THEN xl_events \cup {"formatted"}
                            ELSE xl_events \cup {"format_failed"}
    /\ xl_pc' = "save"
    /\ UNCHANGED <<component, xl_entry, xl_data, xl_fmt, xl_result,
                   handlerVars, getVars, converterVars>>

\* self.workbook.save(output_path); return True
XlSave ==
    /\ component = "excel"
    /\ xl_pc = "save"
    /\ \E ok \in BOOLEAN :
        IF ok
        THEN xl_events' = xl_events \cup {"saved"} /\ xl_result' = "True"
        ELSE xl_events' = xl_events \cup {"save_failed"} /\ xl_result' = file_except("save")
    /\ xl_pc' = "done"
    /\ UNCHANGED <<component, xl_entry, xl_data, xl_fmt, xl_rows, xl_widths,
                   handlerVars, getVars, converterVars>>

NextExcel ==
    \/ XlValidate \/ XlGuard \/ XlFrame \/ XlWorkbook
    \/ XlStyles \/ XlAppend \/ XlFormat \/ XlSave

SpecExcel == InitExcel /\ [][NextExcel]_vars

(***************************************************************************)
(* Claims about json_to_excel_file.                                        *)
(***************************************************************************)
NumRecords == Len(xl_data.items)

\* The longest stringified value among the cells of a column, header included.
Longest(col) ==
    LET lens == {HeaderLen} \cup {frame_cell(xl_data, i, col) : i \in 1..NumRecords}
    IN  CHOOSE m \in lens : \A l \in lens : l <= m

Clamp(x) == IF x < 10 THEN 10 ELSE IF x > 50 THEN 50 ELSE x

\* C14: json_to_excel_file called with data that validate_json_data rejects
\* (not a list, an empty list, a list with an item that is not a dictionary,
\* a list whose key sets are too different) returns False without creating a
\* workbook and without writing the output file.
C14_RendererRejectsInvalid ==
    (xl_entry = FileEntry /\ ~validate_json_data(xl_data).is_valid) =>
        /\ "workbook_created" \notin xl_events
        /\ "saved" \notin xl_events
        /\ xl_pc = "done" => xl_result = "False"

\* C18, as stated: after the formatting, every column's width is the longest
\* stringified length of the column clamped to [10, 50].
C18_ColumnWidth_Original ==
    (xl_fmt /\ "formatted" \in xl_events) =>
        /\ Len(xl_widths) = Len(columns(xl_data))
        /\ \A j \in 1..Len(xl_widths) :
              xl_widths[j] = Clamp(Longest(columns(xl_data)[j]))

\* C18: after a formatting in which no step failed, every column's width is
\* the longest stringified length of the column plus 2, clamped to [10, 50]:
\* never below 10, never above 50, and equal to that length plus 2 whenever
\* this lies within the range.
C18_ColumnWidth ==
    (xl_fmt /\ "formatted" \in xl_events) =>
        /\ Len(xl_widths) = Len(columns(xl_data))
        /\ \A j \in 1..Len(xl_widths) :
              LET longest == Longest(columns(xl_data)[j])
              IN  /\ xl_widths[j] >= 10
                  /\ xl_widths[j] <= 50
                  /\ xl_widths[j] = Clamp(longest + 2)
                  /\ longest + 2 \in 10..50 => xl_widths[j] = longest + 2

\* A saved sheet with two columns: a longest value of 20
\* gives the width 22, a longest value of 1 gives the minimum 10.
C18_Witness ==
    /\ xl_fmt
    /\ xl_result = "True"
    /\ "formatted" \in xl_events
    /\ columns(xl_data) = <<"a", "b">>
    /\ Longest("a") = 20
    /\ xl_widths = <<22, 10>>

\* C19: for N valid records with apply_formatting true the sheet has one
\* header row followed by exactly N data rows; once the formatting has run,
\* the header row has the blue header fill, no data row has it, and any two
\* consecutive data rows have different fills.
C19_LayoutAndFills ==
    (xl_fmt /\ validate_json_data(xl_data).is_valid /\ "rows_written" \in xl_events) =>
        /\ Len(xl_rows) = NumRecords + 1
        /\ xl_rows[1].kind = "header"
        /\ \A r \in 2..(NumRecords + 1) : xl_rows[r].kind = "data"
        /\ "formatted" \in xl_events =>
              /\ xl_rows[1].fill = HEADER_FILL
              /\ \A r \in 2..(NumRecords + 1) : xl_rows[r].fill \in {NO_FILL, ALT_FILL}
              /\ \A r \in 2..NumRecords : xl_rows[r].fill # xl_rows[r + 1].fill

\* Three valid records were formatted and saved: gray, plain, gray.
C19_Witness ==
    /\ xl_fmt
    /\ validate_json_data(xl_data).is_valid
    /\ NumRecords = 3
    /\ xl_result = "True"
    /\ "saved" \in xl_events
    /\ Len(xl_rows) = 4
    /\ xl_rows[1].fill = HEADER_FILL
    /\ <<xl_rows[2].fill, xl_rows[3].fill, xl_rows[4].fill>> = <<ALT_FILL, NO_FILL, ALT_FILL>>

\* C20: when apply_formatting is true and a formatting step fails (building
\* the style objects, or applying the formatting), json_to_excel_file has
\* still written the header and all data rows, and unless the save itself
\* fails it saves the workbook and returns True.
C20_FormattingFailsOpen ==
    (xl_fmt /\ xl_events \cap {"styles_failed", "format_failed"} # {}) =>
        /\ "rows_written" \in xl_events
        /\ Len(xl_rows) = NumRecords + 1
        /\ (xl_pc = "done" /\ "save_failed" \notin xl_events) =>
              /\ xl_result = "True"
              /\ "saved" \in xl_events

(***************************************************************************)
(* handler.do_GET.                                                         *)
(* The request target is a sequence of tokens: "/", the delimiters "?",    *)
(* "#" and ";", and the words "verificar" and "x".  What the handler       *)
(* sends is a sequence of lines: send_response and send_header put their   *)
(* line in the headers buffer, unless the request is HTTP/0.9, and         *)
(* end_headers adds the empty line and writes the buffer to wfile.         *)
(***************************************************************************)
MaxUrl == 3

UrlToken == {"/", "verificar", "x", "?", "#", ";"}

Urls == {u \in SeqsUpTo(UrlToken, MaxUrl) : u # <<>> /\ Head(u) = "/"}

Versions == {"HTTP/0.9", "HTTP/1.0", "HTTP/1.1"}

\* The index of the first token of s, from position i on, that is in set;
\* Len(s) + 1 when there is none.
RECURSIVE FindFirst(_, _, _)
FindFirst(s, set, i) ==
    IF i > Len(s) THEN Len(s) + 1
    ELSE IF s[i] \in set THEN i
    ELSE FindFirst(s, set, i + 1)

\* The index of the last "/" of s, 0 when there is none.
RECURSIVE LastSlash(_, _)
LastSlash(s, i) ==
    IF i = 0 THEN 0 ELSE IF s[i] = "/" THEN i ELSE LastSlash(s, i - 1)

\* urllib.parse.urlparse(url).path for a target without a scheme: a target
\* that starts with "//" has a network location, which runs up to the next
\* "/", "?" or "#"; the fragment and the query are cut off at the first "#"
\* or "?"; the parameters are cut off at the first ";" of the last segment.
urlparse_path(url) ==
    LET rest == IF Len(url) >= 2 /\ url[1] = "/" /\ url[2] = "/"
                THEN SubSeq(url, FindFirst(url, {"/", "?", "#"}, 3), Len(url))
                ELSE url
        hier == SubSeq(rest, 1, FindFirst(rest, {"?", "#"}, 1) - 1)
        semi == FindFirst(hier, {";"}, LastSlash(hier, Len(hier)) + 1)
    IN  SubSeq(hier, 1, semi - 1)

\* s without its leading "/" tokens: s.lstrip('/').
RECURSIVE LStripSlash(_)
LStripSlash(s) ==
    IF s # <<>> /\ Head(s) = "/" THEN LStripSlash(Tail(s)) ELSE s

\* self.path as BaseHTTPRequestHandler.parse_request leaves it for the
\* request target: a target that starts with "//" is reduced to a single
\* leading "/".
self_path(target) ==
    IF Len(target) >= 2 /\ target[1] = "/" /\ target[2] = "/"
    THEN <<"/">> \o LStripSlash(target)
    ELSE target

\* if path in ['/', '/verificar']
Routes == {<<"/">>, <<"/", "verificar">>}

StatusLine(code) == [kind |-> "status", code |-> code, name |-> ""]

HeaderLine(name) == [kind |-> "header", code |-> 0, name |-> name]

EndOfHeaders == [kind |-> "end", code |-> 0, name |-> ""]

BodyLine(status) == [kind |-> "body", code |-> 0, name |-> status]

\* BaseHTTPRequestHandler.send_response: the status line and the Server and
\* Date headers go to the headers buffer, nothing for HTTP/0.9.
send_response(buffer, version, code) ==
    IF version = "HTTP/0.9" THEN buffer
    ELSE buffer \o <<StatusLine(code), HeaderLine("Server"), HeaderLine("Date")>>

send_header(buffer, version, name) ==
    IF version = "HTTP/0.9" THEN buffer ELSE Append(buffer, HeaderLine(name))

InitGet ==
    /\ component = "get"
    /\ get_url \in Urls
    /\ request_version \in Versions
    /\ get_pc = "parse"
    /\ get_path = <<>>
    /\ headers_buffer = <<>>
    /\ wfile = <<>>
    /\ JsonIdle
    /\ DocxIdle
    /\ InlineIdle
    /\ MdIdle
    /\ HandlerIdle
    /\ ExcelIdle

\* parsed_path = urllib.parse.urlparse(self.path); path = parsed_path.path
GetParse ==
    /\ get_pc = "parse"
    /\ get_path' = urlparse_path(self_path(get_url))
    /\ get_pc' = "send_response"
    /\ UNCHANGED <<component, get_url, request_version, headers_buffer, wfile,
                   handlerVars, excelVars, converterVars>>

\* self.send_response(200)
GetSendResponse ==
    /\ get_pc = "send_response"
    /\ headers_buffer' = send_response(headers_buffer, request_version, 200)
    /\ get_pc' = "send_headers"
    /\ UNCHANGED <<component, get_url, request_version, get_path, wfile,
                   handlerVars, excelVars, converterVars>>

\* The four calls of self.send_header.
GetSendHeaders ==
    /\ get_pc = "send_headers"
    /\ headers_buffer' =
          send_header(
            send_header(
              send_header(
                send_header(headers_buffer, request_version, "Content-type"),
                request_version, "Access-Control-Allow-Origin"),
              request_version, "Access-Control-Allow-Methods"),
            request_version, "Access-Control-Allow-Headers")
    /\ get_pc' = "end_headers"
    /\ UNCHANGED <<component, get_url, request_version, get_path, wfile,
                   handlerVars, excelVars, converterVars>>

\* self.end_headers(): the empty line is added and the buffer written out.
GetEndHeaders ==
    /\ get_pc = "end_headers"
    /\ wfile' = IF request_version = "HTTP/0.9" THEN wfile
                ELSE wfile \o Append(headers_buffer, EndOfHeaders)
    /\ headers_buffer' = IF request_version = "HTTP/0.9" THEN headers_buffer ELSE <<>>
    /\ get_pc' = "route"
    /\ UNCHANGED <<component, get_url, request_version, get_path,
                   handlerVars, excelVars, converterVars>>

\* if path in ['/', '/verificar']: the status response is built;
\* else: self.send_response(404), and the error response is built;
\* then self.wfile.write(json.dumps(response, ...)).
GetRespond ==
    /\ get_pc = "route"
    /\ headers_buffer' = IF get_path \in Routes THEN headers_buffer
                         ELSE send_response(headers_buffer, request_version, 404)
    /\ wfile' = Append(wfile, BodyLine(IF get_path \in Routes THEN "ok" ELSE "erro"))
    /\ get_pc' = "done"
    /\ UNCHANGED <<component, get_url, request_version, get_path,
                   handlerVars, excelVars, converterVars>>

NextGet == GetParse \/ GetSendResponse \/ GetSendHeaders \/ GetEndHeaders \/ GetRespond

SpecGet == InitGet /\ [][NextGet]_vars

(***************************************************************************)
(* Claims about do_GET.                                                    *)
(***************************************************************************)
IsStatusLine(line) == line.kind = "status"

\* The status codes of the status lines written to the client, in order.
StatusCodes(written) ==
    LET lines == SelectSeq(written, IsStatusLine)
    IN  [i \in 1..Len(lines) |-> lines[i].code]

\* C30: when do_GET has answered a request (HTTP/1.0 or later), the client
\* has received exactly one status line: 200 for the paths '/' and
\* '/verificar', 404 for every other path.
C30_GetStatus ==
    (get_pc = "done" /\ request_version # "HTTP/0.9") =>
        StatusCodes(wfile) = IF get_path \in Routes THEN <<200>> ELSE <<404>>

====
